---- MODULE Spec2Model ----
(***************************************************************************)
(* Multi-source market data acquisition of aiagents-stock:                 *)
(*   smart_monitor_data.py   SmartMonitorDataFetcher  (TDX -> AKShare ->   *)
(*                           Tushare, with a retry loop on AKShare)        *)
(*   data_source_manager.py  DataSourceManager        (AKShare -> Tushare) *)
(*   sector_strategy_data.py SectorStrategyDataFetcher (_safe_request,     *)
(*                           six sector domains, cache store fallback)     *)
(*                                                                         *)
(* A behaviour constructs one of the three objects and then runs requests  *)
(* on it, one at a time.  A step is one provider call (or one cache-store  *)
(* call) together with all the local code that follows it up to the next   *)
(* call or the return.  Providers, the cache store and the console are the *)
(* environment: the outcome of each of their calls is chosen with \E.      *)
(***************************************************************************)
EXTENDS Integers, Sequences, FiniteSets, TLC

\* ------------------------------------------------------------------ bounds
\* Largest value of the `retry` argument explored (0 is explored too).
MaxRetry == 2

\* ------------------------------------------------------- program constants
\* time.sleep(2) between AKShare attempts of get_realtime_quote
QuoteRetrySleep == 2
\* time.sleep(1) between AKShare attempts of get_technical_indicators
IndicatorRetrySleep == 1
\* time.sleep(1) between AKShare attempts of get_main_force_flow
FlowRetrySleep == 1
\* retry=1 default used by get_comprehensive_data's two calls
DefaultRetry == 1
\* SectorStrategyDataFetcher: self.max_retries, self.retry_delay, self.request_delay
max_retries == 3
retry_delay == 2
request_delay == 1

\* ------------------------------------------------------------------ inputs
\* Stock codes, as digit sequences: Shanghai (6), Shenzhen (0), Beijing (8),
\* a leading digit of no exchange (9) and a code that is too short.
Symbols ==
    { <<6,0,0,5,1,9>>, <<0,0,0,0,0,1>>, <<8,3,0,7,9,9>>, <<9,0,0,0,0,1>>, <<6,0,0>> }

Retries == 0..MaxRetry

\* Providers in the priority order of the fallback chain.
Providers == {"tdx", "akshare", "tushare"}

Rank(p) == CASE p = "tdx" -> 1 [] p = "akshare" -> 2 [] p = "tushare" -> 3

\* What one provider call can do: return rows, return no rows, or raise.
Outcomes == {"ok", "empty", "raise"}

\* A history query can also return rows, but fewer than the 60 bars needed.
BarOutcomes == Outcomes \cup {"short"}

\* ------------------------------------------------------------------- state
VARIABLES
    obj,            \* which class was constructed: "smart" | "manager" | "sector"
    use_tdx,        \* SmartMonitorDataFetcher.use_tdx
    tdx_fetcher,    \* SmartMonitorDataFetcher.tdx_fetcher is not None
    ts_pro,         \* SmartMonitorDataFetcher.ts_pro is not None
    tushare_available, \* DataSourceManager.tushare_available
    tushare_token,  \* os.getenv('TUSHARE_TOKEN') is non-empty
    tushare_api_attr, \* SectorStrategyDataFetcher._tushare_api: "absent" | "None" | "api"
    db,             \* cache store: for each key, whether a payload is stored
    writes,         \* cache store: the keys the request in progress has written
    data,           \* get_all_sector_data: the dict `data` (fresh_data to its caller)
    cached_data,    \* get_cached_data_with_fallback: the dict loaded from the store
    op,             \* the request operation in progress, or "idle"
    caller,         \* the operation that called op, or "none"
    pc,             \* position inside op: the provider stage about to be called
    attempt,        \* loop variable `attempt` of the retry loop
    retry,          \* argument `retry`
    stock_code,     \* argument stock_code / symbol
    log,            \* provider calls and sleeps of this request, in order
    last,           \* the latest call or sleep of this request, kept where `log` starts afresh
    result,         \* outcome of op: pending, returned(value) or raised
    part,           \* get_comprehensive_data: what `result` dict holds so far
    df,             \* _calculate_all_indicators: the DataFrame `df`, column by column
    snapshot,       \* _calculate_all_indicators: the value it returned
    calc,           \* position inside _calculate_all_indicators / a normalization
    native,         \* a provider's response row, in the provider's own units
    record,         \* the dict a request built from `native`
    calls,          \* number of calls of _calculate_all_indicators made so far
    returned,       \* what they returned: pairs of bars handed in and value returned
    peer            \* a second request in progress on the same fetcher, from another thread

\* The variables of the indicator computation and of unit normalization;
\* no request operation keeps any of them on the fetcher.
calcVars == <<df, snapshot, calc, native, record, calls, returned>>
fetcherVars == <<obj, use_tdx, tdx_fetcher, ts_pro, tushare_available,
                 tushare_token, tushare_api_attr, db, writes, data, cached_data, calcVars,
                 peer>>
handleVars == <<obj, use_tdx, tdx_fetcher, tushare_available, tushare_token, calcVars,
                peer>>
argVars == <<retry, stock_code>>
selfVars == <<obj, use_tdx, tdx_fetcher, ts_pro, tushare_available,
              tushare_token, tushare_api_attr, db, writes, data, cached_data,
              op, caller, pc, attempt, retry, stock_code, log, last, result,
              part>>
requestVars == <<selfVars, peer>>
vars == <<requestVars, calcVars>>

\* ------------------------------------------------------------- log entries
\* A call that opens an attempt on provider p (one pass of a retry loop, or
\* the single TDX or Tushare pass), and a further call of the same attempt.
CallEv(p, o) == [kind |-> "call", prov |-> p, out |-> o, secs |-> 0, first |-> TRUE]
FollowEv(p, o) == [kind |-> "call", prov |-> p, out |-> o, secs |-> 0, first |-> FALSE]
SleepEv(p, s) == [kind |-> "sleep", prov |-> p, out |-> "-", secs |-> s, first |-> FALSE]

\* --------------------------------------------------------------- results
Pending == [status |-> "pending", kind |-> "-", src |-> "-"]
Returned(k, s) == [status |-> "returned", kind |-> k, src |-> s]
None == Returned("None", "-")
Raised == [status |-> "raised", kind |-> "-", src |-> "-"]

NoPart == [quote |-> FALSE, indicators |-> FALSE]

\* The locals of a request of another thread; no request is in progress there.
NoPeer ==
    [op |-> "idle", pc |-> "idle", attempt |-> 0, retry |-> 0, stock_code |-> <<>>,
     log |-> <<>>, result |-> Pending]

\* The six domains of the sector dict; TRUE: the domain holds data.
Domains ==
    {"sectors", "concepts", "sector_fund_flow", "market_overview", "north_flow", "news"}

\* `data` as get_all_sector_data creates it, and the dict of the same shape
\* that _load_cached_data creates (with success preset).
EmptyData ==
    [success |-> FALSE, error |-> FALSE, from_cache |-> FALSE,
     sectors |-> FALSE, concepts |-> FALSE, sector_fund_flow |-> FALSE,
     market_overview |-> FALSE, north_flow |-> FALSE, news |-> FALSE]

\* Keys of the cache store: those written and those read.
StoreKeys ==
    {"industry", "concept", "fund_flow", "market_overview", "news",
     "sectors", "concepts", "north_flow"}

EmptyStore == [k \in StoreKeys |-> FALSE]

CacheEv(k) == [kind |-> "cache_read", prov |-> k, out |-> "-", secs |-> 0, first |-> FALSE]

\* No DataFrame, no snapshot (None), no provider row, no dict.
NoFrame == [close |-> <<>>, high |-> <<>>, low |-> <<>>, volume |-> <<>>]

NoSnapshot == [kind |-> "None"]

NoNative == [prov |-> "-", vol |-> 0, amount |-> 0, lots |-> 0, thousands |-> 0]

NoRecord == [path |-> "-", prov |-> "-", volume |-> 0, amount |-> 0]

\* A control record: where the handler is after a step.
\* `last`: the call or sleep the step ended with, NoEv if it made none.
NoEv == [kind |-> "none", prov |-> "-", out |-> "-", secs |-> 0, first |-> FALSE]

LastOf(lg) == IF lg = <<>> THEN NoEv ELSE lg[Len(lg)]

Jump(p, a, lg) ==
    [pc |-> p, attempt |-> a, log |-> lg, last |-> LastOf(lg), result |-> Pending]

Ret(v, lg) ==
    [pc |-> "done", attempt |-> 0, log |-> lg, last |-> LastOf(lg), result |-> v]

Apply(c) ==
    /\ pc' = c.pc
    /\ attempt' = c.attempt
    /\ log' = c.log
    /\ last' = IF c.last = NoEv THEN last ELSE c.last
    /\ result' = c.result

Truthy(r) == r.status = "returned" /\ r.kind \notin {"None", "empty"}

StartsWith(code, d) == Len(code) > 0 /\ code[1] = d

\* --------------------------------------------------------- construction
\* SmartMonitorDataFetcher.__init__: use_tdx stays set only if the TDX
\* fetcher could be constructed.
InitUseTdx(enabled, tdx_ok) == enabled /\ tdx_ok

InitTdxFetcher(enabled, tdx_ok) == enabled /\ tdx_ok

\* ts_pro is set only with a token and a successful pro_api().
InitTsPro(token, api_ok) == token /\ api_ok

\* DataSourceManager.__init__
InitTushareAvailable(token, api_ok) == token /\ api_ok

Init ==
    /\ obj \in {"smart", "manager", "sector"}
    /\ tushare_token \in BOOLEAN
    /\ \E enabled \in BOOLEAN, tdx_ok \in BOOLEAN :
          /\ use_tdx = (obj = "smart" /\ InitUseTdx(enabled, tdx_ok))
          /\ tdx_fetcher = (obj = "smart" /\ InitTdxFetcher(enabled, tdx_ok))
    /\ \E api_ok \in BOOLEAN :
          /\ ts_pro = (obj = "smart" /\ InitTsPro(tushare_token, api_ok))
          /\ tushare_available =
                (obj = "manager" /\ InitTushareAvailable(tushare_token, api_ok))
    /\ tushare_api_attr = "absent"
    /\ db = EmptyStore
    /\ writes = {}
    /\ data = EmptyData
    /\ cached_data = EmptyData
    /\ op = "idle"
    /\ caller = "none"
    /\ pc = "idle"
    /\ attempt = 0
    /\ retry = 0
    /\ stock_code = <<>>
    /\ log = <<>>
    /\ last = NoEv
    /\ peer = NoPeer
    /\ result = Pending
    /\ part = NoPart
    /\ df = NoFrame
    /\ snapshot = NoSnapshot
    /\ calc = "idle"
    /\ native = NoNative
    /\ record = NoRecord
    /\ returned = {}
    /\ calls = 0

\* ------------------------------------------- SmartMonitorDataFetcher guards
\* `if self.use_tdx and self.tdx_fetcher:`
TdxEnabled == use_tdx /\ tdx_fetcher

\* Variant: the Tushare fallback taken without testing self.ts_pro.
TushareEnabled_Always == TRUE

\* `if self.ts_pro:`
TushareEnabled == ts_pro

\* The inline translation of _get_realtime_quote_from_tushare and
\* _get_main_force_from_tushare: a suffix, or "none" (the method returns None).
InlineTsSuffix(code) ==
    IF StartsWith(code, 6) THEN "SH"
    ELSE IF StartsWith(code, 0) \/ StartsWith(code, 3) THEN "SZ"
    ELSE "none"

\* _get_technical_indicators_from_tushare: an unknown leading digit leaves
\* the code as it is ("same"), and the query is made with it.
IndicatorTsSuffix(code) ==
    IF StartsWith(code, 6) THEN "SH"
    ELSE IF StartsWith(code, 0) \/ StartsWith(code, 3) THEN "SZ"
    ELSE "same"

\* DataSourceManager._convert_to_ts_code: the suffix added to the symbol, or
\* "same" when the symbol is returned unchanged.
_convert_to_ts_code(symbol) ==
    IF Len(symbol) # 6 THEN "same"
    ELSE IF StartsWith(symbol, 6) THEN "SH"
    ELSE IF StartsWith(symbol, 0) \/ StartsWith(symbol, 3) THEN "SZ"
    ELSE IF StartsWith(symbol, 8) \/ StartsWith(symbol, 4) THEN "BJ"
    ELSE "SZ"

\* ---------------------------------------------------- get_realtime_quote
\* After AKShare: `if self.ts_pro: return self._get_realtime_quote_from_tushare`
\* whose first statement translates the code and returns None if it cannot.
QuoteTushareStage(code, lg) ==
    IF ~TushareEnabled THEN Ret(None, lg)
    ELSE IF InlineTsSuffix(code) = "none" THEN Ret(None, lg)
    ELSE Jump("tushare", 0, lg)

\* Variant: a loop that makes one pass more than `retry`.
QuoteAkshareStage_OneMore(a, r, code, lg) ==
    IF a <= r THEN Jump("akshare", a, lg) ELSE QuoteTushareStage(code, lg)

\* Head of `for attempt in range(retry):`
QuoteAkshareStage(a, r, code, lg) ==
    IF a < r THEN Jump("akshare", a, lg) ELSE QuoteTushareStage(code, lg)

QuoteStart(r, code) ==
    IF TdxEnabled THEN Jump("tdx", 0, <<>>) ELSE QuoteAkshareStage(0, r, code, <<>>)

\* Variant: the TDX block without its `return quote`.
QuoteAfterTdx_NoReturn(out, r, code, lg) ==
    QuoteAkshareStage(0, r, code, Append(lg, CallEv("tdx", out)))

\* The TDX block: a truthy quote is returned, a falsy one or an exception
\* falls to AKShare.
QuoteAfterTdx(out, r, code, lg) ==
    LET lg1 == Append(lg, CallEv("tdx", out)) IN
    IF out = "ok" THEN Ret(Returned("quote", "tdx"), lg1)
    ELSE QuoteAkshareStage(0, r, code, lg1)

\* Variant: an AKShare failure that leaves the loop at once.
QuoteAfterAkshare_NoRetry(out, a, r, code, lg) ==
    LET lg1 == Append(lg, CallEv("akshare", out)) IN
    IF out = "ok" THEN Ret(Returned("quote", "akshare"), lg1)
    ELSE QuoteTushareStage(code, lg1)

\* One iteration of the AKShare loop.  "empty" is an empty minute frame,
\* "raise" an exception of any of the three AKShare calls.
QuoteAfterAkshare(out, a, r, code, lg) ==
    LET lg1 == Append(lg, CallEv("akshare", out)) IN
    IF out = "ok" THEN Ret(Returned("quote", "akshare"), lg1)
    ELSE IF a < r - 1
         THEN QuoteAkshareStage(a + 1, r, code,
                                Append(lg1, SleepEv("akshare", QuoteRetrySleep)))
         ELSE QuoteTushareStage(code, lg1)

\* Method 1 of _get_realtime_quote_from_tushare (daily_basic + daily):
\* success returns the quote; no rows or an exception goes on to method 2.
QuoteAfterTushareBasic(out, lg) ==
    LET lg1 == Append(lg, CallEv("tushare", out)) IN
    IF out = "ok" THEN Ret(Returned("quote", "tushare"), lg1)
    ELSE Jump("tushare_pro_bar", 0, lg1)

\* Variant: method 2 without the try/except around it.
QuoteAfterTushareProBar_NoExcept(out, lg) ==
    LET lg1 == Append(lg, FollowEv("tushare", out)) IN
    CASE out = "ok" -> Ret(Returned("quote", "tushare"), lg1)
      [] out = "empty" -> Ret(None, lg1)
      [] out = "raise" -> Ret(Raised, lg1)

\* Method 2 (stock_basic + pro_bar): success returns the quote, anything
\* else returns None.
QuoteAfterTushareProBar(out, lg) ==
    LET lg1 == Append(lg, FollowEv("tushare", out)) IN
    IF out = "ok" THEN Ret(Returned("quote", "tushare"), lg1)
    ELSE Ret(None, lg1)

call_get_realtime_quote ==
    /\ obj = "smart" /\ op = "idle"
    /\ \E code \in Symbols, r \in Retries :
          /\ stock_code' = code
          /\ retry' = r
          /\ Apply(QuoteStart(r, code))
    /\ op' = "get_realtime_quote"
    /\ caller' = "none"
    /\ UNCHANGED <<fetcherVars, part>>

\* Variant: a TDX call that fails switches TDX off for the fetcher.
get_realtime_quote_tdx_SwitchesOff ==
    /\ op = "get_realtime_quote" /\ pc = "tdx"
    /\ \E out \in Outcomes :
          /\ Apply(QuoteAfterTdx(out, retry, stock_code, log))
          /\ use_tdx' = (use_tdx /\ out = "ok")
    /\ UNCHANGED <<obj, tdx_fetcher, ts_pro, tushare_available, tushare_token,
                   tushare_api_attr, db, writes, data, cached_data, calcVars, peer,
                   argVars, op, caller, part>>

get_realtime_quote_tdx ==
    /\ op = "get_realtime_quote" /\ pc = "tdx"
    /\ \E out \in Outcomes : Apply(QuoteAfterTdx(out, retry, stock_code, log))
    /\ UNCHANGED <<fetcherVars, argVars, op, caller, part>>

get_realtime_quote_akshare ==
    /\ op = "get_realtime_quote" /\ pc = "akshare"
    /\ \E out \in Outcomes :
          Apply(QuoteAfterAkshare(out, attempt, retry, stock_code, log))
    /\ UNCHANGED <<fetcherVars, argVars, op, caller, part>>

get_realtime_quote_tushare ==
    /\ op = "get_realtime_quote" /\ pc = "tushare"
    /\ \E out \in Outcomes : Apply(QuoteAfterTushareBasic(out, log))
    /\ UNCHANGED <<fetcherVars, argVars, op, caller, part>>

get_realtime_quote_tushare_pro_bar ==
    /\ op = "get_realtime_quote" /\ pc = "tushare_pro_bar"
    /\ \E out \in Outcomes : Apply(QuoteAfterTushareProBar(out, log))
    /\ UNCHANGED <<fetcherVars, argVars, op, caller, part>>

\* ----------------------------------------------- get_technical_indicators
\* `if self.ts_pro: return self._get_technical_indicators_from_tushare(...)`;
\* that method keeps an untranslatable code as it is and still queries.
IndicatorTushareStage(lg) ==
    IF ~TushareEnabled THEN Ret(None, lg) ELSE Jump("tushare", 0, lg)

IndicatorAkshareStage(a, r, lg) ==
    IF a < r THEN Jump("akshare", a, lg) ELSE IndicatorTushareStage(lg)

IndicatorStart(r) ==
    IF TdxEnabled THEN Jump("tdx", 0, <<>>) ELSE IndicatorAkshareStage(0, r, <<>>)

IndicatorAfterTdx(out, r, lg) ==
    LET lg1 == Append(lg, CallEv("tdx", out)) IN
    IF out = "ok" THEN Ret(Returned("indicators", "tdx"), lg1)
    ELSE IndicatorAkshareStage(0, r, lg1)

\* Variant: a frame of fewer than 60 bars ends the request at once.
IndicatorAfterAkshare_ShortFatal(out, a, r, lg) ==
    LET lg1 == Append(lg, CallEv("akshare", out)) IN
    IF out = "ok" THEN Ret(Returned("indicators", "akshare"), lg1)
    ELSE IF out = "short" THEN Ret(None, lg1)
    ELSE IF a < r - 1
         THEN IndicatorAkshareStage(a + 1, r,
                                    Append(lg1, SleepEv("akshare", IndicatorRetrySleep)))
         ELSE IndicatorTushareStage(lg1)

\* Variant: a `while True:` in place of `for attempt in range(retry):`.
IndicatorAfterAkshare_WhileTrue(out, a, r, lg) ==
    LET lg1 == Append(lg, CallEv("akshare", out)) IN
    IF out = "ok" THEN Ret(Returned("indicators", "akshare"), lg1)
    ELSE Jump("akshare", a, Append(lg1, SleepEv("akshare", IndicatorRetrySleep)))

\* One iteration of the AKShare loop: an empty or short frame and an
\* exception both sleep and go round again, or leave the loop on the last
\* iteration; a frame of 60 bars or more goes to _calculate_all_indicators.
IndicatorAfterAkshare(out, a, r, lg) ==
    LET lg1 == Append(lg, CallEv("akshare", out)) IN
    IF out = "ok" THEN Ret(Returned("indicators", "akshare"), lg1)
    ELSE IF a < r - 1
         THEN IndicatorAkshareStage(a + 1, r,
                                    Append(lg1, SleepEv("akshare", IndicatorRetrySleep)))
         ELSE IndicatorTushareStage(lg1)

\* _get_technical_indicators_from_tushare: one daily() query; no rows, fewer
\* than 60 rows, a missing required column or an exception return None.
IndicatorAfterTushare(out, lg) ==
    LET lg1 == Append(lg, CallEv("tushare", out)) IN
    IF out = "ok" THEN Ret(Returned("indicators", "tushare"), lg1)
    ELSE Ret(None, lg1)

call_get_technical_indicators ==
    /\ obj = "smart" /\ op = "idle"
    /\ \E code \in Symbols, r \in Retries :
          /\ stock_code' = code
          /\ retry' = r
          /\ Apply(IndicatorStart(r))
    /\ op' = "get_technical_indicators"
    /\ caller' = "none"
    /\ UNCHANGED <<fetcherVars, part>>

get_technical_indicators_tdx ==
    /\ op = "get_technical_indicators" /\ pc = "tdx"
    /\ \E out \in Outcomes : Apply(IndicatorAfterTdx(out, retry, log))
    /\ UNCHANGED <<fetcherVars, argVars, op, caller, part>>

get_technical_indicators_akshare ==
    /\ op = "get_technical_indicators" /\ pc = "akshare"
    /\ \E out \in BarOutcomes : Apply(IndicatorAfterAkshare(out, attempt, retry, log))
    /\ UNCHANGED <<fetcherVars, argVars, op, caller, part>>

get_technical_indicators_tushare ==
    /\ op = "get_technical_indicators" /\ pc = "tushare"
    /\ \E out \in BarOutcomes \cup {"missing_cols"} :
          Apply(IndicatorAfterTushare(out, log))
    /\ UNCHANGED <<fetcherVars, argVars, op, caller, part>>

\* ---------------------------------------------------- get_main_force_flow
\* stock_individual_fund_flow_rank can also raise TypeError (an API whose
\* parameters changed); the call is then repeated without arguments.
FlowOutcomes == Outcomes \cup {"typeerror"}

FlowTushareStage(code, lg) ==
    IF ~TushareEnabled THEN Ret(None, lg)
    ELSE IF InlineTsSuffix(code) = "none" THEN Ret(None, lg)
    ELSE Jump("tushare", 0, lg)

FlowAkshareStage(a, r, code, lg) ==
    IF a < r THEN Jump("akshare", a, lg) ELSE FlowTushareStage(code, lg)

\* One iteration of the AKShare loop.  o1 is the outcome of the call with
\* market=..., o2 that of the call without arguments made after a TypeError.
\* "empty": the ranking holds no row for the stock.
FlowAfterAkshare(o1, o2, a, r, code, lg) ==
    LET out == IF o1 = "typeerror" THEN o2 ELSE o1
        lg1 == IF o1 = "typeerror"
               THEN lg \o <<CallEv("akshare", o1), FollowEv("akshare", o2)>>
               ELSE Append(lg, CallEv("akshare", o1))
    IN  CASE out = "ok" -> Ret(Returned("flow", "akshare"), lg1)
          [] out = "typeerror" -> Ret(None, lg1)
          [] out = "empty" -> Ret(None, lg1)
          [] out = "raise" ->
                IF a < r - 1
                THEN FlowAkshareStage(a + 1, r, code,
                                      Append(lg1, SleepEv("akshare", FlowRetrySleep)))
                ELSE FlowTushareStage(code, lg1)

\* _get_main_force_from_tushare: moneyflow for today (o1) and, if that has
\* no rows, moneyflow up to today (o2).
FlowAfterTushare(o1, o2, lg) ==
    LET out == IF o1 = "empty" THEN o2 ELSE o1
        lg1 == IF o1 = "empty"
               THEN lg \o <<CallEv("tushare", o1), FollowEv("tushare", o2)>>
               ELSE Append(lg, CallEv("tushare", o1))
    IN  IF out = "ok" THEN Ret(Returned("flow", "tushare"), lg1)
        ELSE Ret(None, lg1)

call_get_main_force_flow ==
    /\ obj = "smart" /\ op = "idle"
    /\ \E code \in Symbols, r \in Retries :
          /\ stock_code' = code
          /\ retry' = r
          /\ Apply(FlowAkshareStage(0, r, code, <<>>))
    /\ op' = "get_main_force_flow"
    /\ caller' = "none"
    /\ UNCHANGED <<fetcherVars, part>>

get_main_force_flow_akshare ==
    /\ op = "get_main_force_flow" /\ pc = "akshare"
    /\ \E o1 \in FlowOutcomes, o2 \in FlowOutcomes :
          /\ o1 # "typeerror" => o2 = o1
          /\ Apply(FlowAfterAkshare(o1, o2, attempt, retry, stock_code, log))
    /\ UNCHANGED <<fetcherVars, argVars, op, caller, part>>

get_main_force_flow_tushare ==
    /\ op = "get_main_force_flow" /\ pc = "tushare"
    /\ \E o1 \in Outcomes, o2 \in Outcomes :
          /\ o1 # "empty" => o2 = o1
          /\ Apply(FlowAfterTushare(o1, o2, log))
    /\ UNCHANGED <<fetcherVars, argVars, op, caller, part>>

\* ------------------------------------------------- get_comprehensive_data
\* result = {}; quote = self.get_realtime_quote(stock_code)
call_get_comprehensive_data ==
    /\ obj = "smart" /\ op = "idle"
    /\ \E code \in Symbols :
          /\ stock_code' = code
          /\ Apply(QuoteStart(DefaultRetry, code))
    /\ retry' = DefaultRetry
    /\ op' = "get_realtime_quote"
    /\ caller' = "get_comprehensive_data"
    /\ part' = NoPart
    /\ UNCHANGED fetcherVars

\* if quote: result.update(quote); indicators = self.get_technical_indicators(..)
get_comprehensive_data_quote ==
    /\ op = "get_realtime_quote" /\ pc = "done"
    /\ caller = "get_comprehensive_data"
    /\ part' = [part EXCEPT !.quote = Truthy(result)]
    /\ op' = "get_technical_indicators"
    /\ Apply(IndicatorStart(DefaultRetry))
    /\ UNCHANGED <<fetcherVars, argVars, caller>>

\* if indicators: result.update(indicators); return result
get_comprehensive_data_indicators ==
    /\ op = "get_technical_indicators" /\ pc = "done"
    /\ caller = "get_comprehensive_data"
    /\ part' = [part EXCEPT !.indicators = Truthy(result)]
    /\ op' = "get_comprehensive_data"
    /\ caller' = "none"
    /\ Apply(Ret(Returned(IF part.quote \/ Truthy(result) THEN "dict" ELSE "empty", "-"),
                 <<>>))
    /\ UNCHANGED <<fetcherVars, argVars>>

\* ------------------------------------------------------ DataSourceManager
\* The four getters share one shape: one AKShare call inside try/except,
\* then, `if self.tushare_available:`, one Tushare call inside try/except.
ManagerGetters ==
    {"get_stock_hist_data", "get_stock_basic_info", "get_realtime_quotes",
     "get_financial_data"}

\* What a getter returns when no provider delivered: None, the `info` dict
\* still holding its "unknown" defaults, or the empty `quotes` dict.
ManagerFailValue(g) ==
    CASE g = "get_stock_hist_data" -> None
      [] g = "get_financial_data" -> None
      [] g = "get_stock_basic_info" -> Returned("default_info", "-")
      [] g = "get_realtime_quotes" -> Returned("empty", "-")

ManagerValue(g, src) ==
    CASE g = "get_stock_hist_data" -> Returned("frame", src)
      [] g = "get_financial_data" -> Returned("frame", src)
      [] g = "get_stock_basic_info" -> Returned("info", src)
      [] g = "get_realtime_quotes" -> Returned("quote", src)

ManagerTushareStage(g, lg) ==
    IF tushare_available THEN Jump("tushare", 0, lg)
    ELSE Ret(ManagerFailValue(g), lg)

ManagerAfterAkshare(g, out, lg) ==
    LET lg1 == Append(lg, CallEv("akshare", out)) IN
    IF out = "ok" THEN Ret(ManagerValue(g, "akshare"), lg1)
    ELSE ManagerTushareStage(g, lg1)

ManagerAfterTushare(g, out, lg) ==
    LET lg1 == Append(lg, CallEv("tushare", out)) IN
    IF out = "ok" THEN Ret(ManagerValue(g, "tushare"), lg1)
    ELSE Ret(ManagerFailValue(g), lg1)

call_DataSourceManager ==
    /\ obj = "manager" /\ op = "idle"
    /\ \E g \in ManagerGetters, code \in Symbols :
          /\ op' = g
          /\ stock_code' = code
    /\ Apply(Jump("akshare", 0, <<>>))
    /\ caller' = "none"
    /\ UNCHANGED <<fetcherVars, retry, part>>

DataSourceManager_akshare ==
    /\ op \in ManagerGetters /\ pc = "akshare"
    /\ \E out \in Outcomes : Apply(ManagerAfterAkshare(op, out, log))
    /\ UNCHANGED <<fetcherVars, argVars, op, caller, part>>

DataSourceManager_tushare ==
    /\ op \in ManagerGetters /\ pc = "tushare"
    /\ \E out \in Outcomes : Apply(ManagerAfterTushare(op, out, log))
    /\ UNCHANGED <<fetcherVars, argVars, op, caller, part>>

\* ----------------------------------------------- SectorStrategyDataFetcher
\* The provider calls of get_all_sector_data, in program order.  Every one
\* goes through _safe_request except "mo_sh", the direct
\* ak.stock_zh_index_spot_em call (Shanghai index) of _get_market_overview.
SectorSites ==
    {"sectors", "concepts", "fund_flow", "mo_stat", "mo_sh", "mo_sz", "mo_cyb",
     "north", "news"}

\* The key of `data` that a call's result goes to.
SiteDomain(site) ==
    CASE site = "sectors" -> "sectors"
      [] site = "concepts" -> "concepts"
      [] site = "fund_flow" -> "sector_fund_flow"
      [] site \in {"mo_stat", "mo_sh", "mo_sz", "mo_cyb"} -> "market_overview"
      [] site = "north" -> "north_flow"
      [] site = "news" -> "news"
      [] site = "finish" -> "finish"

\* Variant: _safe_request with a retry sleep that doubles at every attempt.
_safe_request_Backoff(out, a, lg) ==
    LET lg1 == Append(lg, CallEv("akshare", out)) IN
    IF out # "raise"
    THEN [st |-> out, log |-> Append(lg1, SleepEv("akshare", request_delay))]
    ELSE IF a < max_retries - 1
         THEN [st |-> "retry",
               log |-> Append(lg1, SleepEv("akshare", retry_delay * (2 ^ a)))]
         ELSE [st |-> "raised", log |-> lg1]

\* Variant: _safe_request that re-raises one attempt before the last.
_safe_request_GivesUpEarly(out, a, lg) ==
    LET lg1 == Append(lg, CallEv("akshare", out)) IN
    IF out # "raise"
    THEN [st |-> out, log |-> Append(lg1, SleepEv("akshare", request_delay))]
    ELSE IF a < max_retries - 2
         THEN [st |-> "retry", log |-> Append(lg1, SleepEv("akshare", retry_delay))]
         ELSE [st |-> "raised", log |-> lg1]

\* _safe_request: one pass of its loop.  A call that returns (rows or none)
\* sleeps request_delay and returns; a call that raises sleeps retry_delay
\* and goes round again, or re-raises on the last iteration.
_safe_request(out, a, lg) ==
    LET lg1 == Append(lg, CallEv("akshare", out)) IN
    IF out # "raise"
    THEN [st |-> out, log |-> Append(lg1, SleepEv("akshare", request_delay))]
    ELSE IF a < max_retries - 1
         THEN [st |-> "retry", log |-> Append(lg1, SleepEv("akshare", retry_delay))]
         ELSE [st |-> "raised", log |-> lg1]

\* The call of _get_market_overview that does not use _safe_request.
DirectRequest(out, lg) ==
    [st |-> IF out = "raise" THEN "raised" ELSE out,
     log |-> Append(lg, CallEv("akshare", out))]

SiteCall(site, out, a, lg) ==
    IF site = "mo_sh" THEN DirectRequest(out, lg) ELSE _safe_request(out, a, lg)

\* The call that follows `site` once it has returned rows ("ok"), returned
\* none ("empty") or raised for good ("raised").  Every sub-fetcher catches
\* the exception; inside _get_market_overview an exception of an index query
\* leaves the `try` that holds the remaining index queries.
NextSite(site, st) ==
    CASE site = "sectors" -> "concepts"
      [] site = "concepts" -> "fund_flow"
      [] site = "fund_flow" -> "mo_stat"
      [] site = "mo_stat" -> "mo_sh"
      [] site = "mo_sh" -> IF st = "raised" THEN "north" ELSE "mo_sz"
      [] site = "mo_sz" -> IF st = "raised" THEN "north" ELSE "mo_cyb"
      [] site = "mo_cyb" -> "north"
      [] site = "north" -> "news"
      [] site = "news" -> "finish"

\* `if sectors_data: data["sectors"] = sectors_data` and its five siblings:
\* the domain is filled only by a call that returned rows.
StoreDomain(d, site, st) ==
    IF st = "ok" THEN [d EXCEPT ![SiteDomain(site)] = TRUE] ELSE d

\* The head of _get_north_money_flow: self.ts_pro = None, then, while the
\* attribute _tushare_api does not exist, pro_api() is tried: success sets
\* self.ts_pro, failure or a missing token sets self._tushare_api = None.
NorthInit(token, api_ok, attr) ==
    [ts_pro |-> attr = "absent" /\ token /\ api_ok,
     attr |-> IF attr = "absent" /\ ~(token /\ api_ok) THEN "None" ELSE attr]

\* `if hasattr(self, '_tushare_api') and self._tushare_api:`
NorthTushareUsable(attr) == attr = "api"

\* Variant: get_cached_data_with_fallback reads the cache whatever the fresh
\* fetch reported.
SectorReturn_AlwaysLoad(d, cl) ==
    IF cl = "get_cached_data_with_fallback"
    THEN [op |-> "get_cached_data_with_fallback", c |-> Jump("load", 0, <<>>)]
    ELSE [op |-> "get_all_sector_data", c |-> Ret(Returned("data", "fresh"), <<>>)]

\* get_all_sector_data returns d to its caller.  get_cached_data_with_fallback
\* returns it if d["success"], and otherwise goes on to _load_cached_data.
SectorReturn(d, cl) ==
    IF cl = "get_cached_data_with_fallback" /\ ~d.success
    THEN [op |-> "get_cached_data_with_fallback", c |-> Jump("load", 0, <<>>)]
    ELSE [op |-> IF cl = "none" THEN "get_all_sector_data" ELSE cl,
          c |-> Ret(Returned("data", "fresh"), <<>>)]

\* The code of get_all_sector_data between two provider calls.  `fault`: a
\* statement of the try body outside the sub-fetchers raises (a print to a
\* console that cannot encode its text); the handler records data["error"].
\* Reaching the end sets data["success"] = True and calls _save_raw_data_to_db.
SectorAdvance(site, st, d, fault, cl) ==
    LET d1 == StoreDomain(d, site, st)
        nxt == NextSite(site, st)
        d2 == IF nxt = "finish" THEN [d1 EXCEPT !.success = TRUE] ELSE d1
    IN  IF fault
        THEN LET r == SectorReturn([d2 EXCEPT !.error = TRUE], cl)
             IN  [op |-> r.op, c |-> r.c, data |-> [d2 EXCEPT !.error = TRUE]]
        ELSE [op |-> "get_all_sector_data",
              c |-> Jump(IF nxt = "finish" THEN "save" ELSE nxt, 0, <<>>),
              data |-> d2]

\* Whether a print of the try body lies between `site` and what follows it.
CrossesPrint(site, st) == SiteDomain(NextSite(site, st)) # SiteDomain(site)

SectorSite(site) ==
    /\ op = "get_all_sector_data" /\ pc = site
    /\ \E out \in Outcomes, fault \in BOOLEAN, api_ok \in BOOLEAN :
          LET c == SiteCall(site, out, attempt, log) IN
          IF c.st = "retry"
          THEN /\ ~fault /\ ~api_ok
               /\ Apply(Jump(site, attempt + 1, c.log))
               /\ UNCHANGED <<op, caller, data, ts_pro, tushare_api_attr>>
          ELSE LET s == SectorAdvance(site, c.st, data, fault, caller)
                   north == s.c.pc = "north"
                   n == NorthInit(tushare_token, api_ok, tushare_api_attr)
               IN  /\ fault => CrossesPrint(site, c.st)
                   /\ api_ok => (north /\ tushare_token /\ tushare_api_attr = "absent")
                   /\ op' = s.op
                   /\ caller' = IF s.op = "get_all_sector_data" THEN caller ELSE "none"
                   /\ data' = s.data
                   /\ Apply([s.c EXCEPT !.last = LastOf(c.log)])
                   /\ ts_pro' = IF north THEN n.ts_pro ELSE ts_pro
                   /\ tushare_api_attr' = IF north THEN n.attr ELSE tushare_api_attr
    /\ UNCHANGED <<handleVars, db, writes, cached_data, argVars, part>>

\* get_all_sector_data / get_cached_data_with_fallback are called: `data` is
\* created and the first print of the try body runs.
SectorCall(cl) ==
    /\ obj = "sector" /\ op = "idle"
    /\ \E fault \in BOOLEAN :
          IF fault
          THEN LET d == [EmptyData EXCEPT !.error = TRUE]
                   r == SectorReturn(d, cl)
               IN  /\ op' = r.op /\ data' = d /\ Apply(r.c)
          ELSE /\ op' = "get_all_sector_data"
               /\ data' = EmptyData
               /\ Apply(Jump("sectors", 0, <<>>))
    /\ caller' = IF op' = "get_all_sector_data" THEN cl ELSE "none"
    /\ cached_data' = EmptyData
    /\ UNCHANGED <<handleVars, ts_pro, tushare_api_attr, db, writes, argVars, part>>

call_get_all_sector_data == SectorCall("none")

call_get_cached_data_with_fallback == SectorCall("get_cached_data_with_fallback")

_get_sector_performance == SectorSite("sectors")

_get_concept_performance == SectorSite("concepts")

_get_sector_fund_flow == SectorSite("fund_flow")

_get_market_overview == \E site \in {"mo_stat", "mo_sh", "mo_sz", "mo_cyb"} : SectorSite(site)

_get_north_money_flow == SectorSite("north")

_get_financial_news == SectorSite("news")

\* ---------------------------------------------------------- cache store
\* SectorStrategyDatabase: a save stores the payload under its key, a read
\* returns the payload last stored under the key, or nothing.
save_sector_raw_data(store, key) == [store EXCEPT ![key] = TRUE]

get_latest_raw_data(store, key) == store[key]

\* _save_raw_data_to_db: the domains it saves, in program order, and the
\* data_type each is saved under (news goes to save_news_data).
SaveOrder == <<"sectors", "concepts", "sector_fund_flow", "market_overview", "news">>

SaveKey(dom) ==
    CASE dom = "sectors" -> "industry"
      [] dom = "concepts" -> "concept"
      [] dom = "sector_fund_flow" -> "fund_flow"
      [] dom = "market_overview" -> "market_overview"
      [] dom = "news" -> "news"

\* _load_cached_data: the domains it reads, in program order, and the key it
\* reads each from (news comes from get_latest_news_data).
LoadOrder ==
    <<"sectors", "concepts", "sector_fund_flow", "market_overview", "north_flow", "news">>

LoadKey(dom) ==
    CASE dom = "sectors" -> "sectors"
      [] dom = "concepts" -> "concepts"
      [] dom = "sector_fund_flow" -> "fund_flow"
      [] dom = "market_overview" -> "market_overview"
      [] dom = "north_flow" -> "north_flow"
      [] dom = "news" -> "news"

\* Variant: _save_raw_data_to_db without the `if data.get(...)` tests.
Saved_Unconditional(d, failAt) ==
    {SaveKey(SaveOrder[k]) : k \in {j \in 1..Len(SaveOrder) : failAt = 0 \/ j < failAt}}

\* The keys that _save_raw_data_to_db(d) writes.
Saved(d, failAt) ==
    LET done(k) == d.success /\ d[SaveOrder[k]] /\ (failAt = 0 \/ k < failAt)
    IN  {SaveKey(SaveOrder[k]) : k \in {j \in 1..Len(SaveOrder) : done(j)}}

\* The store after _save_raw_data_to_db(d).  Nothing is saved unless
\* d["success"]; a domain is saved if it holds data; failAt > 0: that save
\* raises, which ends the method (the exception is logged, not re-raised).
SaveAll(store, d, failAt) ==
    [key \in StoreKeys |-> IF key \in Saved(d, failAt)
                            THEN save_sector_raw_data(store, key)[key]
                            ELSE store[key]]

\* Variant: _load_cached_data without the has_data test.
LoadCached_NoHasData(store, failAt) ==
    LET cd == [k \in DOMAIN EmptyData |->
                 IF k = "success" THEN TRUE
                 ELSE IF k \in Domains THEN get_latest_raw_data(store, LoadKey(k))
                 ELSE FALSE]
        reads == IF failAt = 0 THEN Len(LoadOrder) ELSE failAt
    IN  [found |-> failAt = 0,
         data |-> cd,
         log |-> [i \in 1..reads |-> CacheEv(LoadKey(LoadOrder[i]))]]

\* _load_cached_data: the dict it builds and returns, or "none" when no
\* domain holds data or a read raised (failAt > 0).
LoadCached(store, failAt) ==
    LET cd == [k \in DOMAIN EmptyData |->
                 IF k = "success" THEN TRUE
                 ELSE IF k \in Domains THEN get_latest_raw_data(store, LoadKey(k))
                 ELSE FALSE]
        has_data == \E dom \in Domains : cd[dom]
        reads == IF failAt = 0 THEN Len(LoadOrder) ELSE failAt
    IN  [found |-> failAt = 0 /\ has_data,
         data |-> cd,
         log |-> [i \in 1..reads |-> CacheEv(LoadKey(LoadOrder[i]))]]

\* Variant: get_cached_data_with_fallback returns the cached dict as loaded.
FallbackResult_Unmarked(c) ==
    IF c.found
    THEN [data |-> c.data, result |-> Returned("data", "cache")]
    ELSE [data |-> EmptyData, result |-> Returned("error", "-")]

\* get_cached_data_with_fallback after _load_cached_data: the cached dict
\* marked from_cache, or the record {"success": False, "error": ...}.
FallbackResult(c) ==
    IF c.found
    THEN [data |-> [c.data EXCEPT !.from_cache = TRUE], result |-> Returned("data", "cache")]
    ELSE [data |-> EmptyData, result |-> Returned("error", "-")]

\* Variant: _save_raw_data_to_db without its try/except; the exception of a
\* save reaches the handler of get_all_sector_data.
SaveExcept_Propagates(d, failAt) == IF failAt # 0 THEN [d EXCEPT !.error = TRUE] ELSE d

\* `except Exception as e: self.logger.error(...)` of _save_raw_data_to_db:
\* `data` as get_all_sector_data has it after the call.
SaveExcept(d, failAt) == d

_save_raw_data_to_db ==
    /\ op = "get_all_sector_data" /\ pc = "save"
    /\ \E failAt \in 0..Len(SaveOrder) :
          /\ failAt # 0 => data[SaveOrder[failAt]]
          /\ db' = SaveAll(db, data, failAt)
          /\ writes' = Saved(data, failAt)
          /\ data' = SaveExcept(data, failAt)
    /\ LET r == SectorReturn(data', caller)
       IN  /\ op' = r.op
           /\ Apply(r.c)
    /\ caller' = "none"
    /\ UNCHANGED <<handleVars, ts_pro, tushare_api_attr, cached_data, argVars, part>>

_load_cached_data ==
    /\ op = "get_cached_data_with_fallback" /\ pc = "load"
    /\ \E failAt \in 0..Len(LoadOrder) :
          LET c == LoadCached(db, failAt)
              f == FallbackResult(c)
          IN  /\ cached_data' = f.data
              /\ Apply(Ret(f.result, c.log))
    /\ UNCHANGED <<handleVars, ts_pro, tushare_api_attr, db, writes, data, op, caller,
                   argVars, part>>

\* ------------------------------------------------------------- the caller
\* The operation has returned (or raised) to the code that called the
\* fetcher; the object is ready for the next request.
request_returns ==
    /\ op # "idle" /\ pc = "done" /\ caller = "none"
    /\ op' = "idle"
    /\ pc' = "idle"
    /\ attempt' = 0
    /\ retry' = 0
    /\ stock_code' = <<>>
    /\ log' = <<>>
    /\ last' = NoEv
    /\ result' = Pending
    /\ part' = NoPart
    /\ data' = EmptyData
    /\ cached_data' = EmptyData
    /\ writes' = {}
    /\ UNCHANGED <<handleVars, ts_pro, tushare_api_attr, db, caller>>

Next ==
    \/ call_get_realtime_quote
    \/ get_realtime_quote_tdx
    \/ get_realtime_quote_akshare
    \/ get_realtime_quote_tushare
    \/ get_realtime_quote_tushare_pro_bar
    \/ call_get_technical_indicators
    \/ get_technical_indicators_tdx
    \/ get_technical_indicators_akshare
    \/ get_technical_indicators_tushare
    \/ call_get_main_force_flow
    \/ get_main_force_flow_akshare
    \/ get_main_force_flow_tushare
    \/ call_get_comprehensive_data
    \/ get_comprehensive_data_quote
    \/ get_comprehensive_data_indicators
    \/ call_DataSourceManager
    \/ DataSourceManager_akshare
    \/ DataSourceManager_tushare
    \/ call_get_all_sector_data
    \/ call_get_cached_data_with_fallback
    \/ _get_sector_performance
    \/ _get_concept_performance
    \/ _get_sector_fund_flow
    \/ _get_market_overview
    \/ _get_north_money_flow
    \/ _get_financial_news
    \/ _save_raw_data_to_db
    \/ _load_cached_data
    \/ request_returns

Spec == Init /\ [][Next]_vars

\* ======================================================================
\* Indicator computation and unit normalization (pure functions)
\* ======================================================================
\* A float is modelled as a fixed-point number, an integer count of 1/Scale
\* units, or as one of the IEEE values NaN, +inf, -inf.
Scale == 1000

\* Frames of up to MinBars + MaxExtraBars rows are explored.
MaxExtraBars == 1

\* `if df.empty or len(df) < 60`
MinBars == 60

F(v) == [k |-> "num", v |-> v]

NaN == [k |-> "nan", v |-> 0]

Inf(sign) == [k |-> "inf", v |-> sign]

Sign(v) == IF v < 0 THEN -1 ELSE 1

IsNaN(x) == x.k = "nan"

FNeg(x) == IF x.k = "nan" THEN NaN ELSE [k |-> x.k, v |-> 0 - x.v]

FAdd(x, y) ==
    IF x.k = "nan" \/ y.k = "nan" THEN NaN
    ELSE IF x.k = "inf" THEN (IF y.k = "inf" /\ y.v # x.v THEN NaN ELSE x)
    ELSE IF y.k = "inf" THEN y
    ELSE F(x.v + y.v)

FSub(x, y) == FAdd(x, FNeg(y))

FMul(x, y) ==
    IF x.k = "nan" \/ y.k = "nan" THEN NaN
    ELSE IF x.k = "inf" \/ y.k = "inf"
         THEN (IF x.v = 0 \/ y.v = 0 THEN NaN ELSE Inf(Sign(x.v) * Sign(y.v)))
    ELSE F((x.v * y.v) \div Scale)

\* The quotient x/y of two fixed-point numbers, y > 0, as a fixed-point number.
Quot(x, y) == (x \div y) * Scale + ((x % y) * Scale) \div y

\* Float division: x/0 is +inf or -inf, 0/0 is NaN, nothing is raised.
\* (A zero is taken as +0; the sign of a zero divisor changes the sign of
\* the infinity only.)
FDiv(x, y) ==
    IF x.k = "nan" \/ y.k = "nan" THEN NaN
    ELSE IF x.k = "inf" THEN (IF y.k = "inf" THEN NaN ELSE Inf(x.v * Sign(y.v)))
    ELSE IF y.k = "inf" THEN F(0)
    ELSE IF y.v = 0 THEN (IF x.v = 0 THEN NaN ELSE Inf(Sign(x.v)))
    ELSE IF y.v > 0 THEN F(Quot(x.v, y.v))
    ELSE F(Quot(0 - x.v, 0 - y.v))

\* x > y on floats: false whenever either side is NaN.
FGt(x, y) ==
    /\ x.k # "nan" /\ y.k # "nan"
    /\ IF x.k = "inf" THEN x.v = 1 /\ ~(y.k = "inf" /\ y.v = 1)
       ELSE IF y.k = "inf" THEN y.v = -1
       ELSE x.v > y.v

FGe(x, y) == x.k # "nan" /\ y.k # "nan" /\ ~FGt(y, x)

\* A whole number of price (or volume) units as a float.
Num(n) == F(n * Scale)

Col(raw) == [i \in DOMAIN raw |-> Num(raw[i])]

RECURSIVE SqrtSearch(_, _, _)
SqrtSearch(x, lo, hi) ==
    IF lo >= hi THEN lo
    ELSE LET mid == (lo + hi + 1) \div 2
         IN  IF mid * mid <= x THEN SqrtSearch(x, mid, hi)
             ELSE SqrtSearch(x, lo, mid - 1)

FSqrt(x) ==
    IF x.k = "nan" THEN NaN
    ELSE IF x.k = "inf" THEN (IF x.v = 1 THEN x ELSE NaN)
    ELSE IF x.v < 0 THEN NaN
    ELSE F(SqrtSearch(x.v * Scale, 0, 46340))

\* ------------------------------------------------------- pandas operations
\* The sum of rows from..to, added up by halves.
RECURSIVE SumRows(_, _, _)
SumRows(col, from, to) ==
    IF from > to THEN F(0)
    ELSE IF from = to THEN col[from]
    ELSE LET mid == (from + to) \div 2
         IN  FAdd(SumRows(col, from, mid), SumRows(col, mid + 1, to))

\* Series.rolling(window=w).mean(): NaN until w rows are there, then the
\* mean of the w rows ending at the row.
RollingMean(col, w) ==
    [i \in DOMAIN col |->
        IF i < w THEN NaN ELSE FDiv(SumRows(col, i - w + 1, i), Num(w))]

RECURSIVE MinRows(_, _, _)
MinRows(col, from, to) ==
    IF from = to THEN col[from]
    ELSE LET m == MinRows(col, from + 1, to)
         IN  IF IsNaN(m) \/ IsNaN(col[from]) THEN NaN
             ELSE IF FGt(m, col[from]) THEN col[from] ELSE m

RECURSIVE MaxRows(_, _, _)
MaxRows(col, from, to) ==
    IF from = to THEN col[from]
    ELSE LET m == MaxRows(col, from + 1, to)
         IN  IF IsNaN(m) \/ IsNaN(col[from]) THEN NaN
             ELSE IF FGt(col[from], m) THEN col[from] ELSE m

RollingMin(col, w) ==
    [i \in DOMAIN col |-> IF i < w THEN NaN ELSE MinRows(col, i - w + 1, i)]

RollingMax(col, w) ==
    [i \in DOMAIN col |-> IF i < w THEN NaN ELSE MaxRows(col, i - w + 1, i)]

RECURSIVE SumSqDev(_, _, _, _)
SumSqDev(col, mean, from, to) ==
    IF from > to THEN F(0)
    ELSE LET d == FSub(col[from], mean)
         IN  FAdd(FMul(d, d), SumSqDev(col, mean, from + 1, to))

\* Series.rolling(window=w).std(): the sample standard deviation (ddof=1).
RollingStd(col, w) ==
    LET mean == RollingMean(col, w)
    IN  [i \in DOMAIN col |->
            IF i < w THEN NaN
            ELSE FSqrt(FDiv(SumSqDev(col, mean[i], i - w + 1, i), Num(w - 1)))]

\* Series.diff(): NaN in the first row.
Diff(col) ==
    [i \in DOMAIN col |-> IF i = 1 THEN NaN ELSE FSub(col[i], col[i - 1])]

\* alpha of ewm(span=...) and of ewm(com=...)
AlphaSpan(span) == (2 * Scale) \div (span + 1)

AlphaCom(com) == Scale \div (com + 1)

\* Series.ewm(alpha, adjust=False).mean() from row i on, `weighted` and
\* `old_wt` being the state after row i - 1.  A NaN row repeats the value
\* before it and lets the old weight decay; the first number seeds the
\* average; a row equal to the average leaves it as it is.
RECURSIVE EwmFrom(_, _, _, _, _)
EwmFrom(vals, alpha, i, weighted, old_wt) ==
    IF i > Len(vals) THEN <<>>
    ELSE LET cur == vals[i]
             obs == cur.k = "num"
             decayed == (old_wt * (Scale - alpha)) \div Scale
             w1 == IF weighted.k = "num"
                   THEN IF obs /\ weighted # cur
                        THEN F((decayed * weighted.v + alpha * cur.v) \div (decayed + alpha))
                        ELSE weighted
                   ELSE cur
             wt1 == IF weighted.k = "num"
                    THEN (IF obs THEN Scale ELSE decayed)
                    ELSE old_wt
         IN  <<w1>> \o EwmFrom(vals, alpha, i + 1, w1, wt1)

Ewm(vals, alpha) ==
    IF vals = <<>> THEN <<>>
    ELSE <<vals[1]>> \o EwmFrom(vals, alpha, 2, vals[1], Scale)

ColSub(a, b) == [i \in DOMAIN a |-> FSub(a[i], b[i])]

\* ------------------------------------------------------ indicator columns
\* Variant: the averages start from zero and not from the first close.
MacdColumns_ZeroSeed(close) ==
    LET ema_fast == Tail(Ewm(<<F(0)>> \o close, AlphaSpan(12)))
        ema_slow == Tail(Ewm(<<F(0)>> \o close, AlphaSpan(26)))
        dif == ColSub(ema_fast, ema_slow)
        dea == Tail(Ewm(<<F(0)>> \o dif, AlphaSpan(9)))
    IN  [dif |-> dif, dea |-> dea,
         macd |-> [i \in DOMAIN dif |-> FMul(FSub(dif[i], dea[i]), Num(2))]]

\* _calculate_macd(df, fast=12, slow=26, signal=9)
MacdColumns(close) ==
    LET ema_fast == Ewm(close, AlphaSpan(12))
        ema_slow == Ewm(close, AlphaSpan(26))
        dif == ColSub(ema_fast, ema_slow)
        dea == Ewm(dif, AlphaSpan(9))
    IN  [dif |-> dif, dea |-> dea,
         macd |-> [i \in DOMAIN dif |-> FMul(FSub(dif[i], dea[i]), Num(2))]]

\* One pass of the loop of _calculate_rsi.
RsiColumn(close, period) ==
    LET delta == Diff(close)
        up == [i \in DOMAIN delta |-> IF FGt(delta[i], F(0)) THEN delta[i] ELSE F(0)]
        dn == [i \in DOMAIN delta |->
                  FNeg(IF FGt(F(0), delta[i]) THEN delta[i] ELSE F(0))]
        gain == RollingMean(up, period)
        loss == RollingMean(dn, period)
    IN  [i \in DOMAIN close |->
            LET rs == FDiv(gain[i], loss[i])
            IN  FSub(Num(100), FDiv(Num(100), FAdd(Num(1), rs)))]

\* The RSV series of _calculate_kdj(df, n=9, m1=3, m2=3)
RsvColumn(close, high, low) ==
    LET low_list == RollingMin(low, 9)
        high_list == RollingMax(high, 9)
    IN  [i \in DOMAIN close |->
            FMul(FDiv(FSub(close[i], low_list[i]), FSub(high_list[i], low_list[i])),
                 Num(100))]

KdjColumns(close, high, low) ==
    LET rsv == RsvColumn(close, high, low)
        k == Ewm(rsv, AlphaCom(3 - 1))
        d == Ewm(k, AlphaCom(3 - 1))
    IN  [kdj_k |-> k, kdj_d |-> d,
         kdj_j |-> [i \in DOMAIN k |->
                       FSub(FMul(Num(3), k[i]), FMul(Num(2), d[i]))]]

\* _calculate_bollinger(df, period=20, std_num=2)
BollColumns(close) ==
    LET mid == RollingMean(close, 20)
        std == RollingStd(close, 20)
    IN  [boll_mid |-> mid,
         boll_upper |-> [i \in DOMAIN mid |-> FAdd(mid[i], FMul(Num(2), std[i]))],
         boll_lower |-> [i \in DOMAIN mid |-> FSub(mid[i], FMul(Num(2), std[i]))]]

\* Variant: the chains accept equal neighbours.
Trend_NonStrict(current_price, ma5, ma20, ma60) ==
    IF FGe(current_price, ma5) /\ FGe(ma5, ma20) /\ FGe(ma20, ma60) THEN "up"
    ELSE IF FGe(ma5, current_price) /\ FGe(ma20, ma5) /\ FGe(ma60, ma20) THEN "down"
    ELSE "sideways"

\* Variant: an upward trend, once reported, is kept until the close falls
\* below ma5.
Trend_Hysteresis(current_price, ma5, ma20, ma60) ==
    IF snapshot.kind = "snapshot" /\ snapshot.trend = "up" /\ FGe(current_price, ma5)
    THEN "up"
    ELSE IF FGt(current_price, ma5) /\ FGt(ma5, ma20) /\ FGt(ma20, ma60) THEN "up"
    ELSE IF FGt(ma5, current_price) /\ FGt(ma20, ma5) /\ FGt(ma60, ma20) THEN "down"
    ELSE "sideways"

\* `if current_price > ma5 > ma20 > ma60: ... elif ... < ... else`
Trend(current_price, ma5, ma20, ma60) ==
    IF FGt(current_price, ma5) /\ FGt(ma5, ma20) /\ FGt(ma20, ma60) THEN "up"
    ELSE IF FGt(ma5, current_price) /\ FGt(ma20, ma5) /\ FGt(ma60, ma20) THEN "down"
    ELSE "sideways"

\* Variant: a close on a band is not yet at the band.
BollPosition_Strict(current_price, upper, mid, lower) ==
    IF FGt(current_price, upper) THEN "upper"
    ELSE IF FGt(lower, current_price) THEN "lower"
    ELSE IF FGt(current_price, mid) THEN "above_mid"
    ELSE "below_mid"

BollPosition(current_price, upper, mid, lower) ==
    IF FGe(current_price, upper) THEN "upper"
    ELSE IF FGe(lower, current_price) THEN "lower"
    ELSE IF FGt(current_price, mid) THEN "above_mid"
    ELSE "below_mid"

\* The record with the fields of r and, on top of them, those of ext.
Extend(r, ext) ==
    [f \in DOMAIN r \cup DOMAIN ext |-> IF f \in DOMAIN ext THEN ext[f] ELSE r[f]]

\* ------------------------------------------------------------ input frames
\* Bar series, by shape.  Prices and volumes are whole units; every bar has
\* low <= close <= high.
Shapes ==
    {"flat", "band", "rising", "falling", "zigzag", "halt", "spike",
     "step_up", "step_down", "quiet", "plateau"}

ShapeClose(shape, i, n) ==
    CASE shape \in {"flat", "band", "quiet"} -> 10
      [] shape = "rising" -> 10 + i
      [] shape = "falling" -> 10 + (n - i)
      [] shape = "zigzag" -> 20 + 2 * (i % 2)
      [] shape = "halt" -> IF i <= n - 9 THEN 10 + i ELSE 10 + (n - 8)
      [] shape = "spike" -> IF i = 1 THEN 40 ELSE 10
      [] shape = "step_up" -> IF i = n THEN 13 ELSE 10
      [] shape = "step_down" -> IF i = n THEN 17 ELSE 20
      [] shape = "plateau" -> IF i = n THEN 17
                              ELSE IF i = n - 1 THEN 15
                              ELSE IF i >= n - 4 THEN 16
                              ELSE IF i >= n - 19 THEN 8
                              ELSE 10

\* Half the high-low range of bar i.
ShapeHalfRange(shape, i, n) ==
    CASE shape = "flat" -> 0
      [] shape = "halt" -> IF i <= n - 9 THEN 1 ELSE 0
      [] OTHER -> 1

ShapeVolume(shape, i, n) == IF shape = "quiet" THEN 0 ELSE 100 + (i % 3)

Frame(shape, n) ==
    [close |-> [i \in 1..n |-> ShapeClose(shape, i, n)],
     high |-> [i \in 1..n |-> ShapeClose(shape, i, n) + ShapeHalfRange(shape, i, n)],
     low |-> [i \in 1..n |-> ShapeClose(shape, i, n) - ShapeHalfRange(shape, i, n)],
     volume |-> [i \in 1..n |-> ShapeVolume(shape, i, n)]]

FrameLengths == {0} \cup ((MinBars - 1)..(MinBars + MaxExtraBars))

Frames == {Frame(shape, n) : shape \in Shapes, n \in FrameLengths}

\* ------------------------------------------------ _calculate_all_indicators
\* Variant: a length test that also turns away a frame of exactly 60 bars.
EnoughBars_OffByOne(n) == ~(n = 0 \/ n <= MinBars)

\* `if df.empty or len(df) < 60: return None`
EnoughBars(n) == ~(n = 0 \/ n < MinBars)

\* Variant: moving averages over one bar more than the window.
MaColumns_WideWindow(close) ==
    [ma5 |-> RollingMean(close, 5 + 1),
     ma20 |-> RollingMean(close, 20 + 1),
     ma60 |-> RollingMean(close, 60 + 1)]

\* df['ma5'], df['ma20'], df['ma60']
MaColumns(close) ==
    [ma5 |-> RollingMean(close, 5),
     ma20 |-> RollingMean(close, 20),
     ma60 |-> RollingMean(close, 60)]

\* df['vol_ma5'], df['vol_ma10']
VolColumns(volume) ==
    [vol_ma5 |-> RollingMean(volume, 5), vol_ma10 |-> RollingMean(volume, 10)]

\* Variant: the ratio without its default.
VolumeRatio_NoDefault(volume, vol_ma5) == FDiv(volume, vol_ma5)

\* `float(latest['成交量']) / float(latest['vol_ma5']) if latest['vol_ma5'] > 0 else 1.0`
VolumeRatio(volume, vol_ma5) ==
    IF FGt(vol_ma5, F(0)) THEN FDiv(volume, vol_ma5) ELSE Num(1)

\* latest = df.iloc[-1] and the dict built from it.
Snapshot(d) ==
    LET n == Len(d.close)
        current_price == Num(d.close[n])
        vol_ma5 == d.vol_ma5[n]
    IN  [kind |-> "snapshot",
         ma5 |-> d.ma5[n], ma20 |-> d.ma20[n], ma60 |-> d.ma60[n],
         trend |-> Trend(current_price, d.ma5[n], d.ma20[n], d.ma60[n]),
         macd_dif |-> d.dif[n], macd_dea |-> d.dea[n], macd |-> d.macd[n],
         rsi6 |-> d.rsi6[n], rsi12 |-> d.rsi12[n], rsi24 |-> d.rsi24[n],
         kdj_k |-> d.kdj_k[n], kdj_d |-> d.kdj_d[n], kdj_j |-> d.kdj_j[n],
         boll_upper |-> d.boll_upper[n], boll_mid |-> d.boll_mid[n],
         boll_lower |-> d.boll_lower[n],
         boll_position |-> BollPosition(current_price, d.boll_upper[n],
                                        d.boll_mid[n], d.boll_lower[n]),
         vol_ma5 |-> vol_ma5,
         volume_ratio |-> VolumeRatio(Num(d.volume[n]), vol_ma5)]

\* The bar columns of a frame, without the columns computed from them.
Bars(d) == [c \in DOMAIN NoFrame |-> d[c]]

\* One call as its caller sees it: the bars handed in, the value returned.
Returns(bars, value) == [bars |-> bars, snapshot |-> value]

\* The length test and the three moving averages.
_calculate_all_indicators ==
    /\ calc = "frame"
    /\ IF EnoughBars(Len(df.close))
       THEN /\ df' = Extend(df, MaColumns(Col(df.close)))
            /\ calc' = "macd"
            /\ UNCHANGED <<snapshot, returned>>
       ELSE /\ snapshot' = NoSnapshot
            /\ calc' = "done"
            /\ returned' = returned \cup {Returns(Bars(df), NoSnapshot)}
            /\ UNCHANGED df
    /\ UNCHANGED <<requestVars, native, record, calls>>

_calculate_macd ==
    /\ calc = "macd"
    /\ df' = Extend(df, MacdColumns(Col(df.close)))
    /\ calc' = "rsi"
    /\ UNCHANGED <<requestVars, snapshot, native, record, calls, returned>>

_calculate_rsi ==
    /\ calc = "rsi"
    /\ df' = Extend(df, [rsi6 |-> RsiColumn(Col(df.close), 6),
                         rsi12 |-> RsiColumn(Col(df.close), 12),
                         rsi24 |-> RsiColumn(Col(df.close), 24)])
    /\ calc' = "kdj"
    /\ UNCHANGED <<requestVars, snapshot, native, record, calls, returned>>

_calculate_kdj ==
    /\ calc = "kdj"
    /\ df' = Extend(df, KdjColumns(Col(df.close), Col(df.high), Col(df.low)))
    /\ calc' = "boll"
    /\ UNCHANGED <<requestVars, snapshot, native, record, calls, returned>>

_calculate_bollinger ==
    /\ calc = "boll"
    /\ df' = Extend(df, BollColumns(Col(df.close)))
    /\ calc' = "latest"
    /\ UNCHANGED <<requestVars, snapshot, native, record, calls, returned>>

\* The volume averages, the last row and the returned dict.
_calculate_all_indicators_return ==
    /\ calc = "latest"
    /\ LET d == Extend(df, VolColumns(Col(df.volume)))
       IN  /\ df' = d
           /\ snapshot' = Snapshot(d)
           /\ returned' = returned \cup {Returns(Bars(d), Snapshot(d))}
    /\ calc' = "done"
    /\ UNCHANGED <<requestVars, native, record, calls>>

\* ------------------------------------------------------ unit normalization
\* One day of trading of one stock: the volume in lots of 100 shares and
\* the amount in thousands of currency units.
MarketData == {[lots |-> l, thousands |-> t] : l \in {0, 10}, t \in {0, 5}}

\* The row a provider reports for it: AKShare gives the volume in lots and
\* the amount in currency units, Tushare the volume in lots and the amount
\* in thousands.
AkshareRow(m) ==
    [prov |-> "akshare", vol |-> m.lots, amount |-> m.thousands * 1000,
     lots |-> m.lots, thousands |-> m.thousands]

TushareRow(m) ==
    [prov |-> "tushare", vol |-> m.lots, amount |-> m.thousands,
     lots |-> m.lots, thousands |-> m.thousands]

NativeRows == {AkshareRow(m) : m \in MarketData} \cup {TushareRow(m) : m \in MarketData}

\* get_realtime_quote: the AKShare dict takes the day's volume and amount as
\* they come; both methods of _get_realtime_quote_from_tushare convert.
QuoteDict(row) ==
    IF row.prov = "akshare"
    THEN [path |-> "get_realtime_quote", prov |-> row.prov,
          volume |-> row.vol, amount |-> row.amount]
    ELSE [path |-> "get_realtime_quote", prov |-> row.prov,
          volume |-> row.vol * 100, amount |-> row.amount * 1000]

\* get_stock_hist_data: the AKShare frame is renamed only, the Tushare frame
\* is renamed and converted.
HistFrame(row) ==
    IF row.prov = "akshare"
    THEN [path |-> "get_stock_hist_data", prov |-> row.prov,
          volume |-> row.vol, amount |-> row.amount]
    ELSE [path |-> "get_stock_hist_data", prov |-> row.prov,
          volume |-> row.vol * 100, amount |-> row.amount * 1000]

\* DataSourceManager.get_realtime_quotes
QuotesDict(row) ==
    IF row.prov = "akshare"
    THEN [path |-> "get_realtime_quotes", prov |-> row.prov,
          volume |-> row.vol, amount |-> row.amount]
    ELSE [path |-> "get_realtime_quotes", prov |-> row.prov,
          volume |-> row.vol * 100, amount |-> row.amount * 1000]

\* get_technical_indicators: the AKShare frame goes to the computation as it
\* is; _get_technical_indicators_from_tushare renames vol and amount only.
IndicatorFrame(row) ==
    [path |-> "get_technical_indicators", prov |-> row.prov,
     volume |-> row.vol, amount |-> row.amount]

get_realtime_quote_dict ==
    /\ calc = "row"
    /\ record' = QuoteDict(native)
    /\ calc' = "built"
    /\ UNCHANGED <<requestVars, df, snapshot, native, calls, returned>>

get_stock_hist_data_frame ==
    /\ calc = "row"
    /\ record' = HistFrame(native)
    /\ calc' = "built"
    /\ UNCHANGED <<requestVars, df, snapshot, native, calls, returned>>

get_realtime_quotes_dict ==
    /\ calc = "row"
    /\ record' = QuotesDict(native)
    /\ calc' = "built"
    /\ UNCHANGED <<requestVars, df, snapshot, native, calls, returned>>

get_technical_indicators_frame ==
    /\ calc = "row"
    /\ record' = IndicatorFrame(native)
    /\ calc' = "built"
    /\ UNCHANGED <<requestVars, df, snapshot, native, calls, returned>>

\* --------------------------------------------------------- specification
\* A SmartMonitorDataFetcher without TDX and without Tushare, no request
\* made, nothing computed yet.
CalcBase ==
    /\ obj = "smart"
    /\ tushare_token = FALSE
    /\ use_tdx = FALSE
    /\ tdx_fetcher = FALSE
    /\ ts_pro = FALSE
    /\ tushare_available = FALSE
    /\ tushare_api_attr = "absent"
    /\ db = EmptyStore
    /\ writes = {}
    /\ data = EmptyData
    /\ cached_data = EmptyData
    /\ op = "idle"
    /\ caller = "none"
    /\ pc = "idle"
    /\ attempt = 0
    /\ retry = 0
    /\ log = <<>>
    /\ last = NoEv
    /\ peer = NoPeer
    /\ result = Pending
    /\ part = NoPart
    /\ snapshot = NoSnapshot
    /\ record = NoRecord
    /\ returned = {}

\* The pure functions applied to every input: a frame of bars handed to
\* _calculate_all_indicators, or a provider row turned into a result.
CalcInit ==
    /\ CalcBase
    /\ stock_code = <<>>
    /\ \/ /\ calc = "frame"
          /\ df \in Frames
          /\ native = NoNative
          /\ calls = 1
       \/ /\ calc = "row"
          /\ df = NoFrame
          /\ native \in NativeRows
          /\ calls = 0

CalcNext ==
    \/ _calculate_all_indicators
    \/ _calculate_macd
    \/ _calculate_rsi
    \/ _calculate_kdj
    \/ _calculate_bollinger
    \/ _calculate_all_indicators_return
    \/ get_realtime_quote_dict
    \/ get_stock_hist_data_frame
    \/ get_realtime_quotes_dict
    \/ get_technical_indicators_frame

CalcSpec == CalcInit /\ [][CalcNext]_vars

\* ------------------------------------------------- calls one after another
\* Calls of _calculate_all_indicators explored in one behaviour.
MaxCalls == 3

\* The frames handed in: 60 flat bars, 60 rising bars, 59 rising bars.
PureFrames ==
    {Frame("flat", MinBars), Frame("rising", MinBars), Frame("rising", MinBars - 1)}

\* The next call on the same fetcher: with a new frame, or with the frame
\* object of the call before, which now carries the computed columns.
call_calculate_all_indicators ==
    /\ calc = "done" /\ calls < MaxCalls
    /\ df' \in PureFrames \cup {df}
    /\ calc' = "frame"
    /\ calls' = calls + 1
    /\ UNCHANGED <<requestVars, snapshot, native, record, returned>>

PureInit == CalcInit /\ calc = "frame" /\ df \in PureFrames

PureNext ==
    \/ call_calculate_all_indicators
    \/ _calculate_all_indicators
    \/ _calculate_macd
    \/ _calculate_rsi
    \/ _calculate_kdj
    \/ _calculate_bollinger
    \/ _calculate_all_indicators_return

PureSpec == PureInit /\ [][PureNext]_vars

\* ------------------------------------------------- bars from the providers
\* The bars of a shape with their dates, 1 for the oldest.
Series(shape, n) == Extend(Frame(shape, n), [date |-> [i \in 1..n |-> i]])

\* A frame's rows picked and ordered by the index sequence idx.
Rows(f, idx) == [c \in DOMAIN f |-> [i \in DOMAIN idx |-> f[c][idx[i]]]]

\* How a provider may deliver a series: oldest first, newest first, or
\* oldest first with the newest row delivered twice.
Orders == {"ascending", "newest_first", "duplicate"}

Delivered(series, order) ==
    LET n == Len(series.date) IN
    CASE order = "ascending" -> series
      [] order = "newest_first" -> Rows(series, [i \in 1..n |-> n + 1 - i])
      [] order = "duplicate" -> Rows(series, [i \in 1..(n + 1) |-> IF i > n THEN n ELSE i])

\* Variant: the Tushare rows are used in the order of their delivery.
sort_values_Skipped(f) == f

\* df.sort_values(date column): the rows by ascending date, rows of one date
\* in the order of their delivery.
sort_values(f) ==
    LET n == Len(f.date)
        before(k, j) == f.date[k] < f.date[j] \/ (f.date[k] = f.date[j] /\ k <= j)
        rank == [j \in 1..n |-> Cardinality({k \in 1..n : before(k, j)})]
    IN  Rows(f, [i \in 1..n |-> CHOOSE j \in 1..n : rank[j] = i])

\* The frame that get_technical_indicators hands to _calculate_all_indicators:
\* the AKShare frame as it came, the Tushare frame sorted and renamed.
IndicatorBars(resp) ==
    IF resp.prov = "tushare" THEN sort_values(resp.rows) ELSE resp.rows

\* The frame that get_stock_hist_data returns: the AKShare frame renamed, the
\* Tushare frame renamed, sorted and converted to shares.
HistBars(resp) ==
    IF resp.prov = "tushare"
    THEN LET f == sort_values(resp.rows)
         IN  Extend(f, [volume |-> [i \in DOMAIN f.volume |-> f.volume[i] * 100]])
    ELSE resp.rows

\* _calculate_all_indicators as one function of a frame of 60 bars or more.
Indicators(f) ==
    LET close == Col(f.close)
        rsi == [rsi6 |-> RsiColumn(close, 6), rsi12 |-> RsiColumn(close, 12),
                rsi24 |-> RsiColumn(close, 24)]
        d1 == Extend(Extend(f, MaColumns(close)), MacdColumns(close))
        d2 == Extend(Extend(d1, rsi), KdjColumns(close, Col(f.high), Col(f.low)))
        d3 == Extend(Extend(d2, BollColumns(close)), VolColumns(Col(f.volume)))
    IN  Snapshot(d3)

\* SmartMonitorTDXDataFetcher.get_technical_indicators: the indicators of
\* the symbol's bars, by the same computation.
TdxIndicators(series) == Indicators(series)

\* What the providers may answer to a request for bars.
FeedShapes == {"rising", "plateau"}

Responses ==
    {[form |-> "series", prov |-> p, path |-> "get_technical_indicators", order |-> o,
      bars |-> Series(sh, MinBars), rows |-> Delivered(Series(sh, MinBars), o)] :
        p \in Providers, o \in Orders, sh \in FeedShapes}
    \cup
    {[form |-> "series", prov |-> p, path |-> "get_stock_hist_data", order |-> o,
      bars |-> Series(sh, MinBars), rows |-> Delivered(Series(sh, MinBars), o)] :
        p \in {"akshare", "tushare"}, o \in Orders, sh \in FeedShapes}

\* get_technical_indicators served by TDX: the value of the TDX fetcher is
\* returned as it is.
get_technical_indicators_tdx_value ==
    /\ calc = "response" /\ native.form = "series"
    /\ native.path = "get_technical_indicators" /\ native.prov = "tdx"
    /\ snapshot' = TdxIndicators(native.bars)
    /\ calc' = "done"
    /\ UNCHANGED <<requestVars, df, native, record, calls, returned>>

\* get_technical_indicators served by AKShare or by Tushare, up to the call
\* of _calculate_all_indicators.
get_technical_indicators_bars ==
    /\ calc = "response" /\ native.form = "series"
    /\ native.path = "get_technical_indicators" /\ native.prov # "tdx"
    /\ df' = IndicatorBars(native)
    /\ calc' = "frame"
    /\ calls' = calls + 1
    /\ UNCHANGED <<requestVars, snapshot, native, record, returned>>

\* get_stock_hist_data served by AKShare or by Tushare.
get_stock_hist_data_bars ==
    /\ calc = "response" /\ native.form = "series"
    /\ native.path = "get_stock_hist_data"
    /\ record' = [path |-> native.path, prov |-> native.prov, rows |-> HistBars(native)]
    /\ calc' = "returned"
    /\ UNCHANGED <<requestVars, df, snapshot, native, calls, returned>>

\* --------------------------------------------- records with absent fields
\* A batch of provider records with one identifying field `id` (board name,
\* date, stock code) and one other field `x`.  A field that no record of the
\* batch carries is a column the frame does not have ("absent"); a field
\* that one record lacks is a NaN cell, or None in a column of objects.
BatchRows == 2

IdCells(present) == IF present THEN {"value", "NaN", "None"} ELSE {"absent"}

XCells(present) == IF present THEN {"value", "NaN"} ELSE {"absent"}

BatchPaths ==
    {[path |-> "_get_sector_performance", prov |-> "akshare"],
     [path |-> "get_stock_hist_data", prov |-> "akshare"],
     [path |-> "get_stock_hist_data", prov |-> "tushare"],
     [path |-> "get_realtime_quotes", prov |-> "akshare"]}

Batches ==
    {[form |-> "records", prov |-> q.prov, path |-> q.path, rows |-> r] :
        q \in BatchPaths,
        r \in UNION {[1..BatchRows -> [id : IdCells(i), x : XCells(j)]] :
                        i \in BOOLEAN, j \in BOOLEAN}}

\* row.get(label, default) of a frame's row.
row_get(cell, default) == IF cell = "absent" THEN default ELSE cell

\* Truth value of a cell in `if sector_name:`; NaN is a non-zero float.
CellTruth(cell) == cell \in {"value", "NaN"}

\* pd.to_datetime of a date cell.
to_datetime(cell) == IF cell \in {"NaN", "None"} THEN "NaT" ELSE cell

\* A numeric cell times a unit factor; NaN stays NaN.
Scaled(cell) == IF cell = "value" THEN "scaled" ELSE cell

\* The rows of a batch, each with its position in the batch.
Numbered(rows) == [i \in DOMAIN rows |-> [row |-> i, id |-> rows[i].id, x |-> rows[i].x]]

Failed == [status |-> "failed", rows |-> <<>>]

Normalized(rows) == [status |-> "returned", rows |-> rows]

\* _get_sector_performance: the loop over df.iterrows().
SectorRecords(b) ==
    LET got == [i \in DOMAIN b.rows |->
                   [row |-> i, id |-> row_get(b.rows[i].id, "empty"),
                    x |-> row_get(b.rows[i].x, "zero")]]
    IN  Normalized(SelectSeq(got, LAMBDA r : CellTruth(r.id)))

\* get_stock_hist_data: df['date'] raises KeyError on a frame without the
\* column, and so does df['volume'] in the Tushare branch; the exception ends
\* the provider's try block.  sort_values puts the NaT rows last.
HistRecords(b) ==
    LET rows == Numbered(b.rows)
        dated == [i \in DOMAIN rows |-> [rows[i] EXCEPT !.id = to_datetime(@)]]
        sorted == SelectSeq(dated, LAMBDA r : r.id # "NaT")
                      \o SelectSeq(dated, LAMBDA r : r.id = "NaT")
    IN  IF rows[1].id = "absent" THEN Failed
        ELSE IF b.prov = "akshare" THEN Normalized(dated)
        ELSE IF rows[1].x = "absent" THEN Failed
        ELSE Normalized([i \in DOMAIN sorted |-> [sorted[i] EXCEPT !.x = Scaled(@)]])

\* get_realtime_quotes, AKShare: df[df['代码'] == symbol], then the first
\* row's fields by row[...]; either raises KeyError on a missing column.
\* The first record of the batch is the one of the symbol asked for.
QuotesRecords(b) ==
    LET rows == Numbered(b.rows)
        stock_df == SelectSeq(rows, LAMBDA r : r.row = 1 /\ r.id = "value")
    IN  IF rows[1].id = "absent" THEN Failed
        ELSE IF stock_df = <<>> THEN [status |-> "empty", rows |-> <<>>]
        ELSE IF rows[1].x = "absent" THEN Failed
        ELSE Normalized(<<stock_df[1]>>)

NormalizeBatch(path) ==
    /\ calc = "response" /\ native.form = "records" /\ native.path = path
    /\ LET out == CASE path = "_get_sector_performance" -> SectorRecords(native)
                    [] path = "get_stock_hist_data" -> HistRecords(native)
                    [] path = "get_realtime_quotes" -> QuotesRecords(native)
       IN  record' = [path |-> path, prov |-> native.prov,
                      status |-> out.status, rows |-> out.rows]
    /\ calc' = "normalized"
    /\ UNCHANGED <<requestVars, df, snapshot, native, calls, returned>>

_get_sector_performance_records == NormalizeBatch("_get_sector_performance")

get_stock_hist_data_records == NormalizeBatch("get_stock_hist_data")

get_realtime_quotes_records == NormalizeBatch("get_realtime_quotes")

FeedInit ==
    /\ CalcBase
    /\ stock_code = <<>>
    /\ calc = "response"
    /\ df = NoFrame
    /\ native \in Responses \cup Batches
    /\ calls = 0

FeedNext ==
    \/ get_technical_indicators_tdx_value
    \/ get_technical_indicators_bars
    \/ get_stock_hist_data_bars
    \/ _get_sector_performance_records
    \/ get_stock_hist_data_records
    \/ get_realtime_quotes_records
    \/ _calculate_all_indicators
    \/ _calculate_macd
    \/ _calculate_rsi
    \/ _calculate_kdj
    \/ _calculate_bollinger
    \/ _calculate_all_indicators_return

FeedSpec == FeedInit /\ [][FeedNext]_vars

\* ------------------------------------- two requests on one fetcher object
\* get_realtime_quote(stock_code), with the default retry, called from a
\* second thread while a request of the first is in progress.  Its locals are the record `peer`; each of its
\* steps is the step of the handler at the same place.
QuoteStep(r, out) ==
    CASE r.pc = "tdx" -> QuoteAfterTdx(out, r.retry, r.stock_code, r.log)
      [] r.pc = "akshare" -> QuoteAfterAkshare(out, r.attempt, r.retry, r.stock_code, r.log)
      [] r.pc = "tushare" -> QuoteAfterTushareBasic(out, r.log)
      [] r.pc = "tushare_pro_bar" -> QuoteAfterTushareProBar(out, r.log)

\* The locals r after a step that ended in the control record c.
Advance(r, c) ==
    [r EXCEPT !.pc = c.pc, !.attempt = c.attempt, !.log = c.log, !.result = c.result]

QuoteCall(code, r) ==
    Advance([NoPeer EXCEPT !.op = "get_realtime_quote", !.retry = r, !.stock_code = code],
            QuoteStart(r, code))

peer_call_get_realtime_quote ==
    /\ obj = "smart" /\ peer.op = "idle"
    /\ \E code \in Symbols : peer' = QuoteCall(code, DefaultRetry)
    /\ UNCHANGED <<selfVars, calcVars>>

peer_get_realtime_quote ==
    /\ peer.op = "get_realtime_quote" /\ peer.pc # "done"
    /\ \E out \in Outcomes : peer' = Advance(peer, QuoteStep(peer, out))
    /\ UNCHANGED <<selfVars, calcVars>>

peer_request_returns ==
    /\ peer.op # "idle" /\ peer.pc = "done"
    /\ peer' = NoPeer
    /\ UNCHANGED <<selfVars, calcVars>>

PairInit == Init /\ obj = "smart"

PairNext ==
    \/ call_get_realtime_quote
    \/ get_realtime_quote_tdx
    \/ get_realtime_quote_akshare
    \/ get_realtime_quote_tushare
    \/ get_realtime_quote_tushare_pro_bar
    \/ request_returns
    \/ peer_call_get_realtime_quote
    \/ peer_get_realtime_quote
    \/ peer_request_returns

PairSpec == PairInit /\ [][PairNext]_vars

\* ======================================================================
\* Properties
\* ======================================================================
CallIdx(lg) == {i \in DOMAIN lg : lg[i].kind = "call"}

\* Attempts made on provider p: the calls that open an attempt.
Attempts(lg, p) == Cardinality({i \in CallIdx(lg) : lg[i].prov = p /\ lg[i].first})

AllCallsFailed(lg) == \A i \in CallIdx(lg) : lg[i].out # "ok"

SmartChainOps == {"get_realtime_quote", "get_technical_indicators"}

\* Provider p is part of the chain of operation o and is not skipped by it:
\* TDX must be enabled, AKShare needs retry > 0 in SmartMonitorDataFetcher
\* (range(0) is empty), Tushare must be initialized.
NotSkipped(o, p) ==
    CASE p = "tdx" -> o \in SmartChainOps /\ TdxEnabled
      [] p = "akshare" -> o \in ManagerGetters \/ retry > 0
      [] p = "tushare" -> IF o \in ManagerGetters THEN tushare_available
                          ELSE TushareEnabled

\* C1: in get_realtime_quote, get_technical_indicators and the
\* DataSourceManager getters the providers are contacted in the order TDX,
\* AKShare, Tushare; a provider is contacted only after every provider of
\* higher priority that the request does not skip has been called and has
\* failed; and no other provider is contacted after a success.
C1_PriorityOrder ==
    op \in SmartChainOps \cup ManagerGetters =>
        \A j \in CallIdx(log) :
            /\ \A i \in CallIdx(log) :
                  i < j => /\ Rank(log[i].prov) <= Rank(log[j].prov)
                           /\ log[i].out = "ok" => log[j].prov = log[i].prov
            /\ \A q \in Providers :
                  (Rank(q) < Rank(log[j].prov) /\ NotSkipped(op, q)) =>
                      \E i \in CallIdx(log) :
                          i < j /\ log[i].prov = q /\ log[i].out # "ok"

\* A request that went through TDX and AKShare and was served by Tushare.
C1_Witness ==
    /\ op = "get_realtime_quote" /\ pc = "done"
    /\ result = Returned("quote", "tushare")
    /\ Attempts(log, "tdx") = 1
    /\ Attempts(log, "akshare") >= 1

C2Ops ==
    {"get_realtime_quote", "get_technical_indicators", "get_main_force_flow",
     "get_stock_hist_data", "get_financial_data"}

\* C2: a request operation never raises to its caller, and when every
\* provider call of the request failed (raised or returned nothing) it
\* returns None.
C2_UnavailableNeverRaises ==
    op \in C2Ops =>
        /\ result.status # "raised"
        /\ (pc = "done" /\ AllCallsFailed(log)) => result = None

\* All three providers were called, each raised, and None came back.
C2_Witness ==
    /\ op = "get_realtime_quote" /\ pc = "done" /\ result = None
    /\ \A p \in Providers :
          \E i \in CallIdx(log) : log[i].prov = p /\ log[i].out = "raise"
    /\ log[Len(log)].out = "raise"

AllDomains(d) == \A dom \in Domains : d[dom]

NoDomain(d) == \A dom \in Domains : ~d[dom]

SectorOps == {"get_all_sector_data", "get_cached_data_with_fallback"}

\* C3: a result is fully populated or explicitly unavailable:
\* get_comprehensive_data returns the empty dict or a dict holding both the
\* quote and the indicators; a sector result marked successful (fresh or
\* from the cache) holds data in every domain.
C3_FullOrUnavailable ==
    /\ (op = "get_comprehensive_data" /\ pc = "done" /\ result.kind # "empty")
          => (part.quote /\ part.indicators)
    /\ (op \in SectorOps /\ pc = "done" /\ result = Returned("data", "fresh")
          /\ data.success) => AllDomains(data)
    /\ (op \in SectorOps /\ pc = "done" /\ result = Returned("data", "cache")
          /\ cached_data.success) => AllDomains(cached_data)

\* The store holds a payload under a key that _load_cached_data reads.
CacheLoadable(store) ==
    \E dom \in Domains : get_latest_raw_data(store, LoadKey(dom))

\* C4: when get_cached_data_with_fallback has made every provider call of
\* the fresh fetch (no other statement failed) and none delivered data,
\* and the store holds a snapshot, the stored snapshot is returned.
C4_FallsBackToCache ==
    (/\ op = "get_cached_data_with_fallback" /\ pc = "done"
     /\ ~data.error /\ NoDomain(data)
     /\ CacheLoadable(db))
        => /\ result = Returned("data", "cache")
           /\ \A dom \in Domains :
                 cached_data[dom] = get_latest_raw_data(db, LoadKey(dom))

CacheReads(lg) == {i \in DOMAIN lg : lg[i].kind = "cache_read"}

\* C5: the store is read only by get_cached_data_with_fallback, only after
\* get_all_sector_data has returned, and only if it did not report success.
C5_CacheReadAfterFetch ==
    /\ (pc = "load" \/ CacheReads(log) # {} \/ cached_data # EmptyData)
          => (op = "get_cached_data_with_fallback" /\ ~data.success)
    /\ op = "get_all_sector_data" => (CacheReads(log) = {} /\ cached_data = EmptyData)
    /\ (op = "get_cached_data_with_fallback" /\ pc = "done" /\ data.success)
          => (CacheReads(log) = {} /\ result = Returned("data", "fresh"))

\* The fresh fetch failed, the six reads were made and the snapshot returned.
C5_Witness ==
    /\ op = "get_cached_data_with_fallback" /\ pc = "done"
    /\ ~data.success
    /\ Cardinality(CacheReads(log)) = Len(LoadOrder)
    /\ result = Returned("data", "cache")

C6Ops ==
    {"get_realtime_quote", "get_technical_indicators", "get_main_force_flow",
     "get_stock_hist_data"}

\* C6: a request returns None only when every initialized provider of its
\* chain has been called (and so has failed): were one of them to succeed,
\* the request would return its result.  Not counted against the claim:
\* AKShare under retry = 0 (no attempt is due) and Tushare for a code that
\* the inline translation does not know.
C6_LowerPrioritySucceeds ==
    (op \in C6Ops /\ pc = "done" /\ result = None) =>
        \A p \in Providers :
            (/\ NotSkipped(op, p)
             /\ (p = "tushare" /\ op \in {"get_realtime_quote", "get_main_force_flow"})
                   => InlineTsSuffix(stock_code) # "none")
                => \E i \in CallIdx(log) : log[i].prov = p

SmartOps == {"get_realtime_quote", "get_technical_indicators", "get_main_force_flow"}

\* Attempts opened on provider p by the first i entries of the log.
AttemptsUpTo(lg, p, i) ==
    Cardinality({k \in CallIdx(lg) : k <= i /\ lg[k].prov = p /\ lg[k].first})

RetrySleepOf(o) ==
    CASE o = "get_realtime_quote" -> QuoteRetrySleep
      [] o = "get_technical_indicators" -> IndicatorRetrySleep
      [] o = "get_main_force_flow" -> FlowRetrySleep

Cont(c) == <<c.pc, c.attempt, c.result>>

\* The call site that follows a call at `site`, or `site` itself on a retry.
SiteAfter(site, out, a, lg) ==
    LET c == SiteCall(site, out, a, lg)
    IN  IF c.st = "retry" THEN site ELSE NextSite(site, c.st)

\* C9: at every provider call that a request is about to make, an empty
\* response and a raised fault lead to the same next step (the same retry,
\* the same next provider or the same return), and no operation raises.
C9_EmptyLikeRaise ==
    /\ result.status # "raised"
    /\ (op = "get_realtime_quote" /\ pc = "tdx") =>
          Cont(QuoteAfterTdx("empty", retry, stock_code, log))
              = Cont(QuoteAfterTdx("raise", retry, stock_code, log))
    /\ (op = "get_realtime_quote" /\ pc = "akshare") =>
          Cont(QuoteAfterAkshare("empty", attempt, retry, stock_code, log))
              = Cont(QuoteAfterAkshare("raise", attempt, retry, stock_code, log))
    /\ (op = "get_realtime_quote" /\ pc = "tushare") =>
          Cont(QuoteAfterTushareBasic("empty", log))
              = Cont(QuoteAfterTushareBasic("raise", log))
    /\ (op = "get_realtime_quote" /\ pc = "tushare_pro_bar") =>
          Cont(QuoteAfterTushareProBar("empty", log))
              = Cont(QuoteAfterTushareProBar("raise", log))
    /\ (op = "get_technical_indicators" /\ pc = "tdx") =>
          Cont(IndicatorAfterTdx("empty", retry, log))
              = Cont(IndicatorAfterTdx("raise", retry, log))
    /\ (op = "get_technical_indicators" /\ pc = "akshare") =>
          Cont(IndicatorAfterAkshare("empty", attempt, retry, log))
              = Cont(IndicatorAfterAkshare("raise", attempt, retry, log))
    /\ (op = "get_technical_indicators" /\ pc = "tushare") =>
          Cont(IndicatorAfterTushare("empty", log))
              = Cont(IndicatorAfterTushare("raise", log))
    /\ (op = "get_main_force_flow" /\ pc = "akshare") =>
          Cont(FlowAfterAkshare("empty", "empty", attempt, retry, stock_code, log))
              = Cont(FlowAfterAkshare("raise", "raise", attempt, retry, stock_code, log))
    /\ (op = "get_main_force_flow" /\ pc = "tushare") =>
          Cont(FlowAfterTushare("empty", "empty", log))
              = Cont(FlowAfterTushare("raise", "raise", log))
    /\ (op \in ManagerGetters /\ pc = "akshare") =>
          Cont(ManagerAfterAkshare(op, "empty", log))
              = Cont(ManagerAfterAkshare(op, "raise", log))
    /\ (op \in ManagerGetters /\ pc = "tushare") =>
          Cont(ManagerAfterTushare(op, "empty", log))
              = Cont(ManagerAfterTushare(op, "raise", log))
    /\ (op = "get_all_sector_data" /\ pc \in SectorSites) =>
          SiteAfter(pc, "empty", attempt, log) = SiteAfter(pc, "raise", attempt, log)

\* C10: a provider that was not initialized is never called and costs no
\* delay.  Every TDX call is made with use_tdx set and a TDX fetcher, every
\* Tushare call with a token and an initialized API; no TDX or Tushare call
\* is pending otherwise; and every sleep of a request follows an AKShare
\* call directly.
C10_UninitializedSkipped ==
    /\ (pc = "tdx" \/ \E i \in CallIdx(log) : log[i].prov = "tdx")
          => (obj = "smart" /\ use_tdx /\ tdx_fetcher)
    /\ (pc \in {"tushare", "tushare_pro_bar"}
            \/ \E i \in CallIdx(log) : log[i].prov = "tushare")
          => /\ tushare_token
             /\ IF obj = "manager" THEN tushare_available
                ELSE obj = "smart" /\ ts_pro
    /\ \A i \in DOMAIN log :
          log[i].kind = "sleep" =>
              /\ log[i].prov = "akshare"
              /\ i > 1
              /\ log[i - 1].kind = "call" /\ log[i - 1].prov = "akshare"

\* TDX and Tushare are both uninitialized: the request made its AKShare
\* attempts, nothing else, and returned None.
C10_Witness ==
    /\ obj = "smart" /\ ~TdxEnabled /\ ~ts_pro
    /\ op = "get_realtime_quote" /\ pc = "done" /\ result = None
    /\ retry >= 1
    /\ Attempts(log, "akshare") = retry
    /\ \A i \in CallIdx(log) : log[i].prov = "akshare"

\* ----------------------------------------------------------------- C11
\* The leading digits for which some translation of the code names an
\* exchange.
KnownLeadingDigits == {6, 0, 3, 8, 4}

Untranslatable(code) == Len(code) # 6 \/ code[1] \notin KnownLeadingDigits

\* C11: a request for a symbol that cannot be translated (wrong length, or a
\* leading digit of no known exchange) contacts no provider, neither TDX nor
\* AKShare nor Tushare, and ends in the unavailable outcome.
C11_UntranslatableShortCircuits ==
    (op \in SmartOps \cup ManagerGetters /\ Untranslatable(stock_code)) =>
        /\ CallIdx(log) = {}
        /\ result.status = "returned" =>
              result \in {None} \cup {ManagerFailValue(g) : g \in ManagerGetters}

\* ----------------------------------------------------------------- C12
\* C12 as stated: in get_technical_indicators a response of fewer than 60
\* bars ends the request at once with the failure; no further call is made,
\* neither to the same provider nor to a provider of lower priority.
C12_ShortSurfacesAtOnce ==
    op = "get_technical_indicators" =>
        \A i \in CallIdx(log) :
            log[i].out = "short" =>
                i = Len(log) /\ pc = "done" /\ result = None

\* C12: in get_technical_indicators an AKShare response of fewer than 60
\* bars is treated like an empty one: while AKShare attempts remain the loop
\* sleeps and asks AKShare again, and after the last attempt the request
\* goes on to Tushare when Tushare is initialized and returns None when it
\* is not.  A Tushare response of fewer than 60 bars returns None at once.
\* No snapshot is returned from a response of fewer than 60 bars.
C12_ShortLikeEmpty ==
    op = "get_technical_indicators" =>
        \A i \in CallIdx(log) :
            log[i].out = "short" =>
                /\ log[i].prov \in {"akshare", "tushare"}
                /\ log[i].prov = "tushare" =>
                      i = Len(log) /\ pc = "done" /\ result = None
                /\ (log[i].prov = "akshare" /\ AttemptsUpTo(log, "akshare", i) < retry) =>
                      /\ i < Len(log)
                      /\ log[i + 1] = SleepEv("akshare", IndicatorRetrySleep)
                      /\ IF i + 1 = Len(log)
                         THEN pc = "akshare" /\ attempt = Attempts(log, "akshare")
                         ELSE log[i + 2] = CallEv("akshare", log[i + 2].out)
                /\ (log[i].prov = "akshare" /\ AttemptsUpTo(log, "akshare", i) = retry) =>
                      IF i = Len(log)
                      THEN IF TushareEnabled THEN pc = "tushare"
                           ELSE pc = "done" /\ result = None
                      ELSE TushareEnabled /\ log[i + 1] = CallEv("tushare", log[i + 1].out)
                /\ (i = Len(log) /\ result.status = "returned") => result = None

\* AKShare delivered too few bars twice, with the loop's sleep in between,
\* and the request went on to Tushare, which delivered.
C12_Witness ==
    /\ op = "get_technical_indicators" /\ pc = "done"
    /\ retry = 2
    /\ log = <<CallEv("akshare", "short"), SleepEv("akshare", IndicatorRetrySleep),
               CallEv("akshare", "short"), CallEv("tushare", "ok")>>
    /\ result = Returned("indicators", "tushare")

\* ----------------------------------------------------------------- C13
\* C13: _calculate_all_indicators returns no snapshot for a frame of fewer
\* than 60 bars (59 included) and computes nothing for it, and returns a
\* snapshot for a frame of 60 bars or more (exactly 60 included).
C13_SnapshotIffSixtyBars ==
    /\ calc \in {"macd", "rsi", "kdj", "boll", "latest"} => Len(df.close) >= MinBars
    /\ calc = "done" =>
          IF Len(df.close) < MinBars
          THEN snapshot = NoSnapshot /\ DOMAIN df = DOMAIN NoFrame
          ELSE snapshot.kind = "snapshot"

\* A frame of exactly 60 bars for which a snapshot was returned.
C13_Witness ==
    calc = "done" /\ Len(df.close) = MinBars /\ snapshot.kind = "snapshot"

\* ----------------------------------------------------------------- C14
\* C14: the volume and the amount that get_realtime_quote and
\* get_stock_hist_data return are in shares and in currency units whichever
\* provider supplied the record, so the same market data gives the same
\* numbers from AKShare and from Tushare.
C14_CanonicalUnits ==
    (calc = "built" /\ record.path \in {"get_realtime_quote", "get_stock_hist_data"}) =>
        /\ record.volume = native.lots * 100
        /\ record.amount = native.thousands * 1000

\* ----------------------------------------------------------------- C15
\* C15: every path that normalizes a Tushare response multiplies the native
\* volume by 100 and the native amount by 1000, once.
C15_TushareTimesHundredThousand ==
    (calc = "built" /\ native.prov = "tushare") =>
        /\ record.volume = native.vol * 100
        /\ record.amount = native.amount * 1000

\* ----------------------------------------------------------------- C16
\* The last n rows of a frame of len rows.
LastRows(len, n) == (len - n + 1)..len

\* No close of the last n bars is below the close before it: the average
\* loss over the trailing n bars is zero.
ZeroAvgLoss(close, n) == \A i \in LastRows(Len(close), n) : close[i] >= close[i - 1]

\* C16: whenever the average loss over the trailing n bars is zero (n = 6,
\* 12, 24), a constant close included, RSI(n) of the snapshot is exactly
\* 100, and neither NaN nor infinite.
C16_ZeroLossRsiHundred ==
    (calc = "done" /\ snapshot.kind = "snapshot") =>
        /\ ZeroAvgLoss(df.close, 6) => snapshot.rsi6 = Num(100)
        /\ ZeroAvgLoss(df.close, 12) => snapshot.rsi12 = Num(100)
        /\ ZeroAvgLoss(df.close, 24) => snapshot.rsi24 = Num(100)

\* ----------------------------------------------------------------- C17
\* The highest high and the lowest low of the last 9 bars coincide.
ZeroRange(d) ==
    \A i, j \in LastRows(Len(d.close), 9) : d.high[i] = d.low[j]

\* C17: whenever the 9-bar range at the last bar is zero, the RSV that the
\* KDJ computation uses there is 50, and K, D and J of the snapshot are
\* numbers.
C17_ZeroRangeRsvFifty ==
    (calc = "done" /\ snapshot.kind = "snapshot" /\ ZeroRange(df)) =>
        /\ RsvColumn(Col(df.close), Col(df.high), Col(df.low))[Len(df.close)] = Num(50)
        /\ snapshot.kdj_k.k = "num"
        /\ snapshot.kdj_d.k = "num"
        /\ snapshot.kdj_j.k = "num"

\* ----------------------------------------------------------------- C18
ConstantClose(close) == \A i \in DOMAIN close : close[i] = close[1]

\* C18: for a frame of at least 60 bars that all close at the same price,
\* DIF, DEA and the histogram 2 * (DIF - DEA) are zero, in every row of the
\* frame and in the snapshot.
C18_ConstantCloseMacdZero ==
    (Len(df.close) >= MinBars /\ ConstantClose(df.close)) =>
        /\ calc \in {"rsi", "kdj", "boll", "latest", "done"} =>
              \A i \in DOMAIN df.close :
                  df.dif[i] = F(0) /\ df.dea[i] = F(0) /\ df.macd[i] = F(0)
        /\ calc = "done" =>
              /\ snapshot.macd_dif = F(0)
              /\ snapshot.macd_dea = F(0)
              /\ snapshot.macd = F(0)

\* The snapshot of 60 bars that close at one price inside a range of highs
\* and lows.
C18_Witness ==
    /\ calc = "done" /\ snapshot.kind = "snapshot"
    /\ Len(df.close) = MinBars /\ ConstantClose(df.close)
    /\ df.high[1] > df.low[1]
    /\ snapshot.macd = F(0)

\* ----------------------------------------------------------------- C19
\* The last close and the three averages of the snapshot, in thousandths.
TrendTerms ==
    <<df.close[Len(df.close)] * Scale, snapshot.ma5.v, snapshot.ma20.v, snapshot.ma60.v>>

Descending(t) == \A i \in 1..(Len(t) - 1) : t[i] > t[i + 1]

Ascending(t) == \A i \in 1..(Len(t) - 1) : t[i] < t[i + 1]

\* C19: the trend of the snapshot is "up" exactly when close > ma5 > ma20 >
\* ma60 at the last bar, "down" exactly when close < ma5 < ma20 < ma60, and
\* "sideways" in every other case, equal neighbours included; it is always
\* one of the three.
C19_TrendIffChains ==
    (calc = "done" /\ snapshot.kind = "snapshot") =>
        /\ snapshot.ma5.k = "num" /\ snapshot.ma20.k = "num" /\ snapshot.ma60.k = "num"
        /\ snapshot.trend \in {"up", "down", "sideways"}
        /\ snapshot.trend = "up" <=> Descending(TrendTerms)
        /\ snapshot.trend = "down" <=> Ascending(TrendTerms)
        /\ snapshot.trend = "sideways" <=> ~Descending(TrendTerms) /\ ~Ascending(TrendTerms)

\* A snapshot with close > ma5 > ma20 and ma20 equal to ma60: sideways.
C19_Witness ==
    /\ calc = "done" /\ snapshot.kind = "snapshot"
    /\ TrendTerms[1] > TrendTerms[2]
    /\ TrendTerms[2] > TrendTerms[3]
    /\ TrendTerms[3] = TrendTerms[4]
    /\ snapshot.trend = "sideways"

\* ----------------------------------------------------------------- C20
RECURSIVE SumCloses(_, _, _)
SumCloses(close, from, to) ==
    IF from > to THEN 0 ELSE close[to] + SumCloses(close, from, to - 1)

\* The arithmetic mean of the n most recent closes, in thousandths.
MeanOfLast(close, n) ==
    F((SumCloses(close, Len(close) - n + 1, Len(close)) * Scale) \div n)

\* C20: for a frame of at least 60 bars, ma5, ma20 and ma60 of the snapshot
\* are the arithmetic means of the 5, the 20 and the 60 most recent closes
\* and of no older bar.
C20_MovingAverages ==
    (calc = "done" /\ snapshot.kind = "snapshot") =>
        /\ snapshot.ma5 = MeanOfLast(df.close, 5)
        /\ snapshot.ma20 = MeanOfLast(df.close, 20)
        /\ snapshot.ma60 = MeanOfLast(df.close, 60)

\* A frame of 61 bars whose first close, four times the others, lies outside
\* every window: the three averages are the price of the later bars.
C20_Witness ==
    /\ calc = "done" /\ snapshot.kind = "snapshot"
    /\ Len(df.close) = MinBars + 1
    /\ df.close[1] > df.close[2] /\ ConstantClose(Tail(df.close))
    /\ snapshot.ma60 = Num(df.close[2])

\* ----------------------------------------------------------------- C21
\* The last close of the frame, in thousandths.
LastClose == df.close[Len(df.close)] * Scale

BollNumbers ==
    snapshot.boll_upper.k = "num" /\ snapshot.boll_mid.k = "num" /\ snapshot.boll_lower.k = "num"

\* C21 as stated: the position is one of four classes: overbought when the
\* close is above the upper band, oversold when it is below the lower band,
\* and otherwise above or below the middle band by the side the close is on.
C21_PositionByStrictSide ==
    (calc = "done" /\ snapshot.kind = "snapshot") =>
        /\ BollNumbers
        /\ snapshot.boll_position \in {"upper", "lower", "above_mid", "below_mid"}
        /\ snapshot.boll_position = "upper" <=> LastClose > snapshot.boll_upper.v
        /\ snapshot.boll_position = "lower" <=> LastClose < snapshot.boll_lower.v
        /\ snapshot.boll_position = "above_mid" <=>
              /\ LastClose <= snapshot.boll_upper.v
              /\ LastClose >= snapshot.boll_lower.v
              /\ LastClose > snapshot.boll_mid.v

\* C21: the position is one of four classes: at or above the upper band it
\* is the upper class (overbought); else at or below the lower band the
\* lower class (oversold); else above the middle band "above mid"; else
\* "below mid", a close on the middle band included.  On a flat window,
\* where the three bands are the close, it is the upper class.
C21_PositionByBands ==
    (calc = "done" /\ snapshot.kind = "snapshot") =>
        /\ BollNumbers
        /\ snapshot.boll_position \in {"upper", "lower", "above_mid", "below_mid"}
        /\ snapshot.boll_position = "upper" <=> LastClose >= snapshot.boll_upper.v
        /\ snapshot.boll_position = "lower" <=>
              LastClose < snapshot.boll_upper.v /\ LastClose <= snapshot.boll_lower.v
        /\ snapshot.boll_position = "above_mid" <=>
              /\ LastClose < snapshot.boll_upper.v
              /\ LastClose > snapshot.boll_lower.v
              /\ LastClose > snapshot.boll_mid.v

\* A flat window: the three bands are the close, and the class is the upper
\* one.
C21_Witness ==
    /\ calc = "done" /\ snapshot.kind = "snapshot"
    /\ snapshot.boll_upper = F(LastClose)
    /\ snapshot.boll_mid = F(LastClose)
    /\ snapshot.boll_lower = F(LastClose)
    /\ snapshot.boll_position = "upper"

\* ----------------------------------------------------------------- C22
\* The mean volume of the 5 most recent bars, in thousandths.
MeanVolume5 == MeanOfLast(df.volume, 5).v

\* C22: volume_ratio of the snapshot is the volume of the last bar divided
\* by the mean volume of the 5 most recent bars, and 1.0 when that mean is
\* zero; it is a number for every input.
C22_VolumeRatio ==
    (calc = "done" /\ snapshot.kind = "snapshot") =>
        /\ snapshot.vol_ma5 = F(MeanVolume5)
        /\ snapshot.volume_ratio.k = "num"
        /\ snapshot.volume_ratio.v =
              IF MeanVolume5 = 0 THEN Scale
              ELSE (df.volume[Len(df.volume)] * Scale * Scale) \div MeanVolume5

\* A frame without any trading: the 5-bar mean is zero and the ratio is 1.0.
C22_Witness ==
    /\ calc = "done" /\ snapshot.kind = "snapshot"
    /\ MeanVolume5 = 0
    /\ snapshot.volume_ratio = Num(1)

\* ----------------------------------------------------------------- C23
\* C23: two calls of _calculate_all_indicators with equal bars return equal
\* values, whatever calls were made before or between them, and a call
\* leaves the fetcher's attributes as they were.
C23_EqualBarsEqualSnapshots ==
    /\ \A h1, h2 \in returned : h1.bars = h2.bars => h1.snapshot = h2.snapshot
    /\ <<tushare_token, use_tdx, tdx_fetcher, ts_pro>> = <<FALSE, FALSE, FALSE, FALSE>>

\* The third call has returned a snapshot; the calls before it were made
\* with two different frames, one of them with the bars of this call, and
\* returned the same snapshot for them.
C23_Witness ==
    /\ calc = "done" /\ calls = 3
    /\ Cardinality(returned) = 2
    /\ DOMAIN df # DOMAIN NoFrame
    /\ \E h \in returned : h.bars = Bars(df) /\ h.snapshot = snapshot

\* ----------------------------------------------------------------- C24
\* The provider delivered the series as that provider does: AKShare oldest
\* first, Tushare newest first (or oldest first), TDX inside its own fetcher.
DeliveredInOrder ==
    \/ native.prov = "tdx"
    \/ native.prov = "akshare" /\ native.order = "ascending"
    \/ native.prov = "tushare" /\ native.order \in {"ascending", "newest_first"}

SuccessfulCall(e) == e.kind = "call" /\ e.out # "raise"

\* The handler is at a provider call it has not issued yet.
AtProviderCall == op # "idle" /\ pc \notin {"idle", "done", "save", "load"}

\* C25: within one request no provider call is issued straight after a
\* provider call that returned: the request delay lies between them, in the
\* sector fetch (each index query of _get_market_overview included) and on
\* every other request path.
C25_DelayAfterEverySuccessfulCall ==
    /\ \A i \in 2..Len(log) : log[i].kind = "call" => ~SuccessfulCall(log[i - 1])
    /\ (AtProviderCall /\ log = <<>>) => ~SuccessfulCall(last)

\* An event that opens an attempt on a provider.
IsAttempt(e) == e.kind = "call" /\ e.first

\* The sleep between attempts of the operation o: the literal of its AKShare
\* loop, or retry_delay inside _safe_request.
FixedRetrySleep(o) == IF o \in SmartOps THEN RetrySleepOf(o) ELSE retry_delay

\* C26: between two consecutive attempts on one provider within a request
\* lies exactly one sleep, of a length fixed for the operation whatever the
\* attempt number; a sleep is always followed by a further attempt on the
\* same provider, so none is taken after the final failed attempt.
C26_OneFixedSleepBetweenAttempts ==
    /\ \A i \in 1..Len(log), j \in 1..Len(log) :
          (/\ i < j /\ IsAttempt(log[i]) /\ IsAttempt(log[j])
           /\ log[i].prov = log[j].prov
           /\ \A m \in (i + 1)..(j - 1) :
                 ~(IsAttempt(log[m]) /\ log[m].prov = log[i].prov))
              => /\ Cardinality({k \in (i + 1)..(j - 1) : log[k].kind = "sleep"}) = 1
                 /\ \A k \in (i + 1)..(j - 1) :
                       log[k].kind = "sleep"
                           => log[k] = SleepEv(log[i].prov, FixedRetrySleep(op))
    /\ \A k \in 1..Len(log) :
          log[k].kind = "sleep"
              => /\ log[k].secs = FixedRetrySleep(op)
                 /\ IF k < Len(log)
                    THEN IsAttempt(log[k + 1]) /\ log[k + 1].prov = log[k].prov
                    ELSE /\ attempt > 0
                         /\ IF op \in SmartOps
                            THEN pc = log[k].prov /\ attempt < retry
                            ELSE pc \in SectorSites /\ attempt < max_retries
    /\ (op \in SectorOps /\ log = <<>>)
          => ~(last.kind = "sleep" /\ last.secs = retry_delay)

\* _safe_request has failed twice at one call site and has slept retry_delay
\* after each failure, before its third and last attempt.
C26_Witness ==
    /\ op = "get_all_sector_data" /\ attempt = 2
    /\ log = <<CallEv("akshare", "raise"), SleepEv("akshare", retry_delay),
               CallEv("akshare", "raise"), SleepEv("akshare", retry_delay)>>

StrictlyAscending(dates) == \A i \in 1..(Len(dates) - 1) : dates[i] < dates[i + 1]

\* C27: the bars that get_stock_hist_data returns, and the bars that
\* get_technical_indicators hands to _calculate_all_indicators, are strictly
\* ascending by date, no date twice, whatever order the provider delivered
\* them in and whether or not it delivered a date twice.
C27_BarsStrictlyAscending ==
    /\ calc = "returned" => StrictlyAscending(record.rows.date)
    /\ (calls > 0 /\ "date" \in DOMAIN df) => StrictlyAscending(df.date)

\* A field a record does not carry, whichever way the frame shows it.
Absent(cell) == cell \in {"absent", "NaN", "None"}

\* C28: normalization of a batch never fails; it returns exactly the
\* records whose identifying field is present (for get_realtime_quotes, the
\* record of the symbol if it is among them), and a returned record that
\* lacks the other field carries the zero/empty default in its place.
C28_AbsentFieldsTolerated ==
    calc = "normalized" =>
        /\ record.status # "failed"
        /\ record.path # "get_realtime_quotes" =>
              {record.rows[k].row : k \in DOMAIN record.rows}
                  = {i \in DOMAIN native.rows : ~Absent(native.rows[i].id)}
        /\ \A k \in DOMAIN record.rows :
              Absent(native.rows[record.rows[k].row].x)
                  => record.rows[k].x \in {"zero", "empty"}

\* The locals of the request of the first thread, as a record like `peer`.
Self ==
    [op |-> op, pc |-> pc, attempt |-> attempt, retry |-> retry,
     stock_code |-> stock_code, log |-> log, result |-> result]

\* What the provider answered to each call of a request, in order.
Answers(lg) ==
    LET calls_ == SelectSeq(lg, LAMBDA e : e.kind = "call")
    IN  [i \in DOMAIN calls_ |-> calls_[i].out]

RECURSIVE Replayed(_, _)
Replayed(r, outs) ==
    IF outs = <<>> \/ r.pc = "done" THEN r
    ELSE Replayed(Advance(r, QuoteStep(r, Head(outs))), Tail(outs))

\* Where get_realtime_quote stands, and what it has returned, when it is
\* run with nothing else in progress and the providers answer as they
\* answered the request r.
Alone(r) == Replayed(QuoteCall(r.stock_code, r.retry), Answers(r.log))

\* C29: no step of a request writes a configuration attribute of the
\* fetcher, and under every interleaving of two get_realtime_quote requests
\* each one stands where, and returns what, it would if it ran alone with
\* the same answers from the providers.
C29_ConcurrentRequestsIndependent ==
    /\ [][/\ use_tdx' = use_tdx
          /\ tushare_available' = tushare_available
          /\ tushare_token' = tushare_token]_vars
    /\ [](/\ op = "get_realtime_quote" => Self = Alone(Self)
          /\ peer.op = "get_realtime_quote" => peer = Alone(peer))

\* Both requests are in progress on different symbols, each has called a
\* provider, and one has been served by TDX while the other went on to
\* AKShare after TDX failed.
C29_Witness ==
    /\ op = "get_realtime_quote" /\ peer.op = "get_realtime_quote"
    /\ stock_code # peer.stock_code
    /\ result = Returned("quote", "tdx")
    /\ peer.pc = "akshare" /\ peer.log = <<CallEv("tdx", "raise")>>

\* C30: in _get_north_money_flow, once pro_api() has succeeded with a
\* configured token, AKShare is called only after a Tushare query that
\* raised or returned nothing.
C30_NorthPrefersTushare ==
    (op = "get_all_sector_data" /\ pc = "north" /\ tushare_token /\ ts_pro)
        => \A i \in CallIdx(log) :
              log[i].prov = "akshare"
                  => \E j \in CallIdx(log) :
                        j < i /\ log[j].prov = "tushare" /\ log[j].out # "ok"

\* C31: what _load_cached_data returns holds, for each domain that
\* _save_raw_data_to_db saves, the payload last saved for that domain: a
\* domain with a payload in the store is a domain with data in the result.
C31_LoadReturnsLatestSave ==
    (op = "get_cached_data_with_fallback" /\ pc = "done"
     /\ result = Returned("data", "cache"))
        => \A k \in 1..Len(SaveOrder) :
              db[SaveKey(SaveOrder[k])] => cached_data[SaveOrder[k]]

\* The call sites of get_all_sector_data that go through _safe_request.
SafeSites == SectorSites \ {"mo_sh"}

C33_LastKnownGoodOnly ==
    /\ [](/\ \A k \in 1..Len(SaveOrder) :
                SaveKey(SaveOrder[k]) \in writes => data[SaveOrder[k]]
          /\ writes # {} => data.success
          /\ writes \subseteq {SaveKey(SaveOrder[k]) : k \in 1..Len(SaveOrder)})
    /\ [][\A key \in StoreKeys : key \notin writes' => db'[key] = db[key]]_vars

\* The news fetch of this request failed or came back empty while an
\* earlier request had stored news: the save wrote other domains and left
\* the stored news alone.
C33_Witness ==
    /\ op = "get_all_sector_data" /\ pc = "done" /\ data.success
    /\ ~data.news /\ db["news"] /\ "news" \notin writes
    /\ "market_overview" \in writes

\* C34: whatever happens inside _save_raw_data_to_db, a database save that
\* raises included, get_all_sector_data returns the data it fetched, marked
\* successful, with no error field, and does not raise.
C34_SaveFailureLeavesResult ==
    [][(op = "get_all_sector_data" /\ pc = "save") =>
          /\ data' = data /\ data'.success /\ ~data'.error
          /\ pc' = "done" /\ result' = Returned("data", "fresh")]_vars

\* A save raised: a domain that holds data was not written, and the fetched
\* data came back all the same.
C34_Witness ==
    /\ op = "get_all_sector_data" /\ pc = "done"
    /\ result = Returned("data", "fresh") /\ data.success /\ ~data.error
    /\ \E k \in 1..Len(SaveOrder) :
          data[SaveOrder[k]] /\ SaveKey(SaveOrder[k]) \notin writes

\* C35: get_cached_data_with_fallback never raises; when the fresh fetch
\* was not successful and the store holds nothing under the keys read, or a
\* read of the store raised, it returns the record with success = False and
\* an error; and the snapshot of _load_cached_data is returned only with
\* data in at least one domain.
C35_NoCacheGivesErrorRecord ==
    /\ op = "get_cached_data_with_fallback" => result.status # "raised"
    /\ (op = "get_cached_data_with_fallback" /\ pc = "done" /\ ~data.success)
          => /\ (~CacheLoadable(db) \/ Cardinality(CacheReads(log)) < Len(LoadOrder))
                   => (result = Returned("error", "-") /\ ~cached_data.success)
             /\ result = Returned("data", "cache")
                   => \E dom \in Domains : cached_data[dom]

\* The fresh fetch failed, the six keys were read and none held a payload.
C35_Witness ==
    /\ op = "get_cached_data_with_fallback" /\ pc = "done" /\ ~data.success
    /\ ~CacheLoadable(db) /\ Cardinality(CacheReads(log)) = Len(LoadOrder)
    /\ result = Returned("error", "-")

\* C36: the dict returned by get_cached_data_with_fallback carries
\* from_cache exactly when it is the snapshot read from the cache store (all
\* six keys read, every domain as the store holds it); the dict built by the
\* live fetch never carries from_cache, and is returned without any read of
\* the store.
C36_FromCacheIffCached ==
    /\ ~data.from_cache
    /\ (op = "get_cached_data_with_fallback" /\ pc = "done")
          => /\ cached_data.from_cache <=> result = Returned("data", "cache")
             /\ cached_data.from_cache
                   => /\ Cardinality(CacheReads(log)) = Len(LoadOrder)
                      /\ \A dom \in Domains :
                            cached_data[dom] = get_latest_raw_data(db, LoadKey(dom))
             /\ result = Returned("data", "fresh")
                   => (data.success /\ CacheReads(log) = {})

\* A snapshot of the store has been returned, marked from_cache.
C36_Witness ==
    /\ op = "get_cached_data_with_fallback" /\ pc = "done"
    /\ result = Returned("data", "cache")
    /\ cached_data.from_cache /\ ~data.from_cache

\* ------------------------------------------------------ symbol translation
\* Characters of a symbol: the digits are themselves, the other characters
\* that occur are numbered after them.
Char(c) ==
    CASE c = "." -> 10
      [] c = "S" -> 11
      [] c = "H" -> 12
      [] c = "Z" -> 13
      [] c = "B" -> 14
      [] c = "J" -> 15

SuffixChars(sfx) ==
    CASE sfx = "SH" -> <<Char("S"), Char("H")>>
      [] sfx = "SZ" -> <<Char("S"), Char("Z")>>
      [] sfx = "BJ" -> <<Char("B"), Char("J")>>

\* f"{symbol}.{suffix}", the symbol itself ("same"), or the method returning
\* None before any query ("none").
Translation(sfx, symbol) ==
    CASE sfx = "none" -> [status |-> "None", ts_code |-> <<>>]
      [] sfx = "same" -> [status |-> "ts_code", ts_code |-> symbol]
      [] OTHER -> [status |-> "ts_code",
                   ts_code |-> symbol \o <<Char(".")>> \o SuffixChars(sfx)]

\* Variant: _convert_from_ts_code returns its argument.
_convert_from_ts_code_Unsplit(ts_code) == ts_code

\* DataSourceManager._convert_from_ts_code: ts_code.split('.')[0] when
\* ts_code has a '.', else ts_code.
_convert_from_ts_code(ts_code) ==
    LET dots == {i \in DOMAIN ts_code : ts_code[i] = Char(".")}
    IN  IF dots # {}
        THEN SubSeq(ts_code, 1, (CHOOSE i \in dots : \A j \in dots : i <= j) - 1)
        ELSE ts_code

\* The places that translate a symbol to a Tushare code.
TranslationSites ==
    {"_convert_to_ts_code", "_get_realtime_quote_from_tushare",
     "_get_technical_indicators_from_tushare", "_get_main_force_from_tushare"}

TranslateAt(site, symbol) ==
    CASE site = "_convert_to_ts_code" -> Translation(_convert_to_ts_code(symbol), symbol)
      [] site = "_get_technical_indicators_from_tushare" ->
            Translation(IndicatorTsSuffix(symbol), symbol)
      [] OTHER -> Translation(InlineTsSuffix(symbol), symbol)

\* Symbols handed to the translations: every leading character (each digit,
\* a '.', a letter) before tails that make the symbol six characters long,
\* shorter, longer, or six characters with a '.' among them; and the empty
\* symbol.
LeadChars == 0..9 \cup {Char("."), Char("S")}

Tails ==
    { <<0,0,5,1,9>>, <<0,0,0,0,1>>, <<0,0>>, <<0,0,0,0,0,1>>,
      <<0, Char("."), 5, 1, 9>> }

CodeSymbols == {<<>>} \cup {<<d>> \o t : d \in LeadChars, t \in Tails}

translate(site) ==
    /\ calc = "symbol"
    /\ record' = [site |-> site, out |-> TranslateAt(site, stock_code), symbol |-> <<>>]
    /\ calc' = "ts_code"
    /\ UNCHANGED <<requestVars, df, snapshot, native, calls, returned>>

_convert_to_ts_code_symbol == translate("_convert_to_ts_code")

_get_realtime_quote_from_tushare_ts_code == translate("_get_realtime_quote_from_tushare")

_get_technical_indicators_from_tushare_ts_code ==
    translate("_get_technical_indicators_from_tushare")

_get_main_force_from_tushare_ts_code == translate("_get_main_force_from_tushare")

\* _convert_from_ts_code applied to what _convert_to_ts_code returned.
_convert_from_ts_code_ts_code ==
    /\ calc = "ts_code" /\ record.site = "_convert_to_ts_code"
    /\ record' = [record EXCEPT !.symbol = _convert_from_ts_code(record.out.ts_code)]
    /\ calc' = "symbol_back"
    /\ UNCHANGED <<requestVars, df, snapshot, native, calls, returned>>

CodeInit ==
    /\ CalcBase
    /\ stock_code \in CodeSymbols
    /\ calc = "symbol"
    /\ df = NoFrame
    /\ native = NoNative
    /\ calls = 0

CodeNext ==
    \/ _convert_to_ts_code_symbol
    \/ _get_realtime_quote_from_tushare_ts_code
    \/ _get_technical_indicators_from_tushare_ts_code
    \/ _get_main_force_from_tushare_ts_code
    \/ _convert_from_ts_code_ts_code

CodeSpec == CodeInit /\ [][CodeNext]_vars

\* C37: every translation site gives, for the same six-character symbol, the
\* same Tushare code or the same failure.
C37_TranslationSitesAgree ==
    (calc = "ts_code" /\ Len(stock_code) = 6) =>
        \A site \in TranslationSites : TranslateAt(site, stock_code) = record.out

\* The suffix by leading character, as the documentation of
\* _convert_to_ts_code gives it.
MarketSuffix(lead) ==
    IF lead = 6 THEN "SH"
    ELSE IF lead \in {0, 3} THEN "SZ"
    ELSE IF lead \in {8, 4} THEN "BJ"
    ELSE "SZ"

HasDot(s) == \E i \in DOMAIN s : s[i] = Char(".")

\* C38: _convert_from_ts_code(_convert_to_ts_code(s)) = s for every symbol s
\* of six characters without a '.', the Tushare code being s, a '.', and SH
\* for a leading 6, SZ for 0 or 3, BJ for 8 or 4, SZ otherwise; a symbol
\* that is empty or not six characters long comes back from
\* _convert_to_ts_code as it is.
C38_TranslationRoundTrips ==
    (calc \in {"ts_code", "symbol_back"} /\ record.site = "_convert_to_ts_code") =>
        /\ record.out.status = "ts_code"
        /\ Len(stock_code) # 6 => record.out.ts_code = stock_code
        /\ (Len(stock_code) = 6 /\ ~HasDot(stock_code)) =>
              /\ record.out.ts_code =
                    stock_code \o <<Char(".")>> \o SuffixChars(MarketSuffix(stock_code[1]))
              /\ calc = "symbol_back" => record.symbol = stock_code

\* A Beijing symbol has been translated and translated back.
C38_Witness ==
    /\ calc = "symbol_back" /\ record.site = "_convert_to_ts_code"
    /\ Len(stock_code) = 6 /\ ~HasDot(stock_code) /\ stock_code[1] = 8
    /\ record.out.ts_code = stock_code \o <<Char("."), Char("B"), Char("J")>>
    /\ record.symbol = stock_code

\* ------------------------------------------------------------ termination
\* A request has been called and has not yet gone back to the code that
\* called the fetcher.
InProgress == op # "idle" /\ ~(pc = "done" /\ caller = "none")

\* Every provider call returns or raises, so a request in progress takes
\* its next step.
LiveSpec == Init /\ [][Next]_vars /\ WF_vars(InProgress /\ Next)

\* Calls and sleeps a request may log: one TDX pass, `retry` AKShare passes
\* with a sleep between two of them, one Tushare pass of at most two queries.
LogBudget(r) == 1 + r + (IF r > 1 THEN r - 1 ELSE 0) + 2

\* C39: get_realtime_quote and get_technical_indicators make at most one
\* TDX attempt, at most `retry` AKShare attempts and at most one Tushare
\* pass, for every retry from 0 on, and end returned with a result or None;
\* a _safe_request call site makes at most max_retries calls; and every
\* request that is in progress comes to its end.
C39_RequestsTerminate ==
    /\ [](op \in {"get_realtime_quote", "get_technical_indicators"} =>
            /\ Attempts(log, "tdx") <= 1
            /\ Attempts(log, "akshare") <= retry
            /\ Attempts(log, "tushare") <= 1
            /\ Len(log) <= LogBudget(retry)
            /\ pc = "done" => result.status = "returned")
    /\ []((op \in SectorOps /\ pc \in SectorSites) =>
            Cardinality(CallIdx(log)) <= max_retries)
    /\ InProgress ~> (op # "idle" /\ pc = "done" /\ caller = "none" /\ result # Pending)

\* get_technical_indicators with retry = 0 has ended: TDX and Tushare had
\* one pass each, AKShare none.
C39_Witness ==
    /\ op = "get_technical_indicators" /\ pc = "done" /\ caller = "none"
    /\ retry = 0 /\ result = None
    /\ Attempts(log, "tdx") = 1
    /\ Attempts(log, "akshare") = 0
    /\ Attempts(log, "tushare") = 1

==============================================================================
